---- MODULE Spec2Model ----
(***************************************************************************)
(* Model of the entry-point parser (src/src/ast_parser/java_ast_parser.py) *)
(* and of the model schema extractor                                       *)
(* (src/src/ast_parser/model_schema_extractor.py).                         *)
(*                                                                         *)
(* Python values are modelled as follows.                                  *)
(*   str        a sequence of symbols (a symbol is a character or a token  *)
(*              that no operation of the code splits); annotation, type    *)
(*              and marker names that the code only compares for equality  *)
(*              are TLA+ strings                                           *)
(*   dict       a function whose domain is the set of keys present         *)
(*   list       a sequence                                                 *)
(*   None       the record None                                            *)
(*   AST node   a record; an annotation's element is a tagged record, one  *)
(*              tag per shape javalang's parse_annotation_element builds   *)
(***************************************************************************)
EXTENDS Integers, Sequences, FiniteSets, TLC

VARIABLES
    entry_points,   \* JavaASTParser.entry_points
    java_files,     \* parse_repository: the list rglob returned, in order
    file_idx,       \* parse_repository: number of files of java_files done
    calls,          \* extractors _analyze_class has invoked, in order
    pc,             \* position of the running operation
    log,            \* the warnings printed by the except clauses, in order
    node,           \* the input: the class under analysis, the source tree, or
                    \* the argument of the extractor's operation
    result,         \* value returned by the operation
    repo,           \* the files under repo_path: path -> content, or Missing
    schemas,        \* ModelSchemaExtractor.schemas
    _java_files_cache,  \* ModelSchemaExtractor._java_files_cache
    first_result,   \* history: the first result of extract_schema for one name
    last_call       \* history: what the last direct extract_schema call did

schema_vars == <<repo, schemas, _java_files_cache, first_result, last_call>>

vars == <<entry_points, java_files, file_idx, calls, pc, log, node, result,
          repo, schemas, _java_files_cache, first_result, last_call>>

\* the state of a ModelSchemaExtractor nobody has constructed
NoExtractor ==
    /\ repo = <<>>
    /\ schemas = <<>>
    /\ _java_files_cache = <<>>
    /\ first_result = <<>>
    /\ last_call = <<>>

----------------------------------------------------------------------------
(* Python helpers *)

None == [py |-> "None"]

IsNone(x) == x = None

\* d[k] = v on a dict
Put(d, k, v) == [x \in (DOMAIN d) \cup {k} |-> IF x = k THEN v ELSE d[x]]

EmptyDict == [x \in {} |-> TRUE]

\* membership of a value in a list: `x in xs`
InList(x, xs) == \E i \in 1..Len(xs) : xs[i] = x

\* the quote character of a string literal's source text
Q == "\""

RECURSIVE LStrip(_, _)
LStrip(s, c) == IF s # <<>> /\ Head(s) = c THEN LStrip(Tail(s), c) ELSE s

RECURSIVE RStrip(_, _)
RStrip(s, c) ==
    IF s # <<>> /\ s[Len(s)] = c THEN RStrip(SubSeq(s, 1, Len(s) - 1), c) ELSE s

\* s.strip(c)
Strip(s, c) == RStrip(LStrip(s, c), c)

\* s.startswith(p)
StartsWith(s, p) == Len(p) <= Len(s) /\ SubSeq(s, 1, Len(p)) = p

\* `sub in s` for strings: sub occurs as a contiguous run of s
Contains(sub, s) ==
    \E i \in 1..(Len(s) - Len(sub) + 1) : SubSeq(s, i, i + Len(sub) - 1) = sub

\* s.replace(old, new): leftmost non-overlapping occurrences, one pass
RECURSIVE Replace(_, _, _)
Replace(s, old, new) ==
    IF s = <<>> THEN <<>>
    ELSE IF StartsWith(s, old)
         THEN new \o Replace(SubSeq(s, Len(old) + 1, Len(s)), old, new)
         ELSE <<Head(s)>> \o Replace(Tail(s), old, new)

\* sep.join(parts), parts a list of strings
RECURSIVE Join(_, _)
Join(sep, parts) ==
    IF parts = <<>> THEN <<>>
    ELSE IF Len(parts) = 1 THEN parts[1]
    ELSE parts[1] \o sep \o Join(sep, Tail(parts))

\* concatenation of a list of lists
RECURSIVE Flatten(_)
Flatten(xss) == IF xss = <<>> THEN <<>> ELSE Head(xss) \o Flatten(Tail(xss))

----------------------------------------------------------------------------
(* javalang nodes *)

\* Annotation.element: None, a Literal, an ElementArrayValue, a list of
\* ElementValuePair (the empty list for `{}`), a nested Annotation, or another
\* expression (a MemberReference)
Absent == [shape |-> "absent"]
Literal(v) == [shape |-> "literal", value |-> v]
ArrayValue(vs) == [shape |-> "array", values |-> vs]
Pairs(ps) == [shape |-> "pairs", pairs |-> ps]
MemberRef(m) == [shape |-> "member", member |-> m]
NestedAnnotation(n, e) == [shape |-> "annotation", name |-> n, element |-> e]
Pair(n, v) == [name |-> n, value |-> v]

\* a string literal's node: its value is the source text, quotes included
StrLit(s) == Literal(<<Q>> \o s \o <<Q>>)

Annotation(n, e) == [name |-> n, element |-> e]

\* truth value of annotation.element: None and the empty list are false
Truthy(e) == e.shape # "absent" /\ ~(e.shape = "pairs" /\ e.pairs = <<>>)
IsLiteral(e) == e.shape = "literal"
IsArray(e) == e.shape = "array"
IsPairList(e) == e.shape = "pairs"
IsMemberRef(e) == e.shape = "member"
\* hasattr(e, 'name') for an element value: of the nodes above only a nested
\* Annotation has the attribute `name` (and it has no attribute `value`)
HasName(e) == e.shape = "annotation"

\* javalang type nodes.  A ReferenceType has name, arguments (None or a list
\* of TypeArgument), sub_type and dimensions; a BasicType has name and
\* dimensions only; a TypeArgument has type (None for `?`) and pattern_type.
ReferenceType(name, arguments, sub_type, dimensions) ==
    [node |-> "ReferenceType", name |-> name, arguments |-> arguments,
     sub_type |-> sub_type, dimensions |-> dimensions]

BasicType(name, dimensions) ==
    [node |-> "BasicType", name |-> name, dimensions |-> dimensions]

TypeArgument(type, pattern_type) == [type |-> type, pattern_type |-> pattern_type]

\* hasattr(type_node, 'sub_type'), hasattr(type_node, 'arguments')
HasSubType(type_node) == type_node.node = "ReferenceType"
HasArguments(type_node) == type_node.node = "ReferenceType"

\* _get_annotations: the names of a node's annotations
_get_annotations(n) == [i \in 1..Len(n.annotations) |-> n.annotations[i].name]

----------------------------------------------------------------------------
(* Class predicates of _analyze_class *)

_is_rest_controller(annotations) ==
    InList("RestController", annotations) \/ InList("Controller", annotations)

_is_jaxrs_resource(annotations) == InList("Path", annotations)

_is_spring_boot_app(annotations) == InList("SpringBootApplication", annotations)

_is_message_consumer(annotations) ==
    InList("Component", annotations) \/ InList("Service", annotations)

_is_batch_job(annotations) ==
    InList("Configuration", annotations) /\ InList("EnableBatchProcessing", annotations)

_has_scheduled_methods(class_node) ==
    \E i \in 1..Len(class_node.methods) :
        InList("Scheduled", _get_annotations(class_node.methods[i]))

_has_main_method(class_node) ==
    \E i \in 1..Len(class_node.methods) :
        /\ class_node.methods[i].name = <<"main">>
        /\ "static" \in class_node.methods[i].modifiers
        /\ "public" \in class_node.methods[i].modifiers

----------------------------------------------------------------------------
(* Helper methods of the extractors *)

\* the value _extract_request_mapping returns for one RequestMapping
\* annotation, or None when the loop goes on to the next annotation
RequestMappingOf(e) ==
    IF ~Truthy(e) THEN None
    ELSE IF IsLiteral(e) THEN [str |-> Strip(e.value, Q)]
    ELSE IF IsArray(e) /\ e.values # <<>> /\ IsLiteral(e.values[1])
         THEN [str |-> Strip(e.values[1].value, Q)]
    ELSE IF IsPairList(e)
         THEN LET hit(i) ==
                      /\ e.pairs[i].name \in {"value", "path"}
                      /\ \/ IsLiteral(e.pairs[i].value)
                         \/ /\ IsArray(e.pairs[i].value)
                            /\ e.pairs[i].value.values # <<>>
                            /\ IsLiteral(e.pairs[i].value.values[1])
                  hits == {i \in 1..Len(e.pairs) : hit(i)}
                  first == CHOOSE i \in hits : \A j \in hits : i <= j
              IN  IF hits = {} THEN None
                  ELSE IF IsLiteral(e.pairs[first].value)
                       THEN [str |-> Strip(e.pairs[first].value.value, Q)]
                       ELSE [str |-> Strip(e.pairs[first].value.values[1].value, Q)]
    \* an ElementArrayValue has `values`, but the `value` of a Literal in it
    \* is a str, never a Literal: lines 349-352 return nothing
    ELSE None

RECURSIVE RequestMappingFrom(_, _)
RequestMappingFrom(annotations, i) ==
    IF i > Len(annotations) THEN <<>>
    ELSE IF annotations[i].name = "RequestMapping"
            /\ ~IsNone(RequestMappingOf(annotations[i].element))
         THEN RequestMappingOf(annotations[i].element).str
         ELSE RequestMappingFrom(annotations, i + 1)

_extract_request_mapping(class_node) == RequestMappingFrom(class_node.annotations, 1)

RECURSIVE PathAnnotationFrom(_, _)
PathAnnotationFrom(annotations, i) ==
    IF i > Len(annotations) THEN <<>>
    ELSE IF annotations[i].name = "Path" /\ IsLiteral(annotations[i].element)
         THEN Strip(annotations[i].element.value, Q)
         ELSE PathAnnotationFrom(annotations, i + 1)

_extract_path_annotation(n) == PathAnnotationFrom(n.annotations, 1)

mapping_types ==
    <<"GetMapping", "PostMapping", "PutMapping", "DeleteMapping", "PatchMapping",
      "RequestMapping">>

_get_http_method(mapping_annotation, method) ==
    CASE mapping_annotation = "GetMapping" -> "GET"
      [] mapping_annotation = "PostMapping" -> "POST"
      [] mapping_annotation = "PutMapping" -> "PUT"
      [] mapping_annotation = "DeleteMapping" -> "DELETE"
      [] mapping_annotation = "PatchMapping" -> "PATCH"
      [] mapping_annotation = "RequestMapping" -> "GET"
      [] OTHER -> "GET"

RECURSIVE MethodPathFrom(_, _)
MethodPathFrom(annotations, i) ==
    IF i > Len(annotations) THEN <<>>
    ELSE IF InList(annotations[i].name, mapping_types) /\ IsLiteral(annotations[i].element)
         THEN Strip(annotations[i].element.value, Q)
         ELSE MethodPathFrom(annotations, i + 1)

_extract_method_path(method) == MethodPathFrom(method.annotations, 1)

----------------------------------------------------------------------------
(* Security annotations *)

\* re.findall(r"'([^']+)'", expr): scanning left to right, each apostrophe
\* followed by a non-empty run without apostrophes and a closing apostrophe
\* is a match; the scan resumes after the closing apostrophe
RECURSIVE FindAllQuoted(_)
FindAllQuoted(expr) ==
    IF expr = <<>> THEN <<>>
    ELSE IF Head(expr) # "'" THEN FindAllQuoted(Tail(expr))
    ELSE LET rest == Tail(expr)
             closes == {j \in 1..Len(rest) : rest[j] = "'"}
             close == CHOOSE j \in closes : \A k \in closes : j <= k
         IN  IF closes = {} THEN <<>>
             ELSE IF close = 1 THEN FindAllQuoted(rest)
             ELSE <<SubSeq(rest, 1, close - 1)>>
                      \o FindAllQuoted(SubSeq(rest, close + 1, Len(rest)))

\* [val.value.strip('"') for val in values if isinstance(val, Literal)]
RECURSIVE LiteralValues(_)
LiteralValues(values) ==
    IF values = <<>> THEN <<>>
    ELSE (IF IsLiteral(Head(values)) THEN <<Strip(Head(values).value, Q)>> ELSE <<>>)
             \o LiteralValues(Tail(values))

\* the roles a Secured or RolesAllowed annotation adds to security_info
WithRoles(info, e) ==
    IF ~Truthy(e) THEN info
    ELSE IF IsArray(e) THEN Put(info, "roles", LiteralValues(e.values))
    ELSE IF IsLiteral(e) THEN Put(info, "roles", <<Strip(e.value, Q)>>)
    ELSE info

\* one iteration of the loop of _extract_security_annotations
SecurityStep(info, ann) ==
    IF ann.name = "PreAuthorize"
    THEN LET i1 == Put(Put(info, "type", "PreAuthorize"), "requires_auth", TRUE)
         IN  IF Truthy(ann.element) /\ IsLiteral(ann.element)
             THEN LET expr == Strip(ann.element.value, Q)
                      i2 == Put(i1, "expression", expr)
                  IN  IF Contains(<<"hasRole">>, expr) \/ Contains(<<"hasAuthority">>, expr)
                      THEN Put(i2, "roles", FindAllQuoted(expr))
                      ELSE i2
             ELSE i1
    ELSE IF ann.name = "Secured"
    THEN WithRoles(Put(Put(info, "type", "Secured"), "requires_auth", TRUE), ann.element)
    ELSE IF ann.name = "RolesAllowed"
    THEN WithRoles(Put(Put(info, "type", "RolesAllowed"), "requires_auth", TRUE),
                   ann.element)
    ELSE IF ann.name = "PermitAll"
    THEN Put(Put(info, "type", "PermitAll"), "requires_auth", FALSE)
    ELSE IF ann.name = "DenyAll"
    THEN Put(Put(Put(info, "type", "DenyAll"), "requires_auth", TRUE), "denied", TRUE)
    ELSE info

RECURSIVE SecurityFold(_, _)
SecurityFold(info, annotations) ==
    IF annotations = <<>> THEN info
    ELSE SecurityFold(SecurityStep(info, Head(annotations)), Tail(annotations))

_extract_security_annotations(n) ==
    IF n.annotations = <<>> THEN None
    ELSE LET security_info == SecurityFold(EmptyDict, n.annotations)
         IN  IF DOMAIN security_info # {} THEN security_info ELSE None

----------------------------------------------------------------------------
(* Parameters and return type *)

\* one pair of a RequestParam or RequestHeader annotation
RequestParamPair(info, pair) ==
    IF pair.name = "defaultValue"
    THEN IF IsLiteral(pair.value)
         THEN Put(info, "default_value", Strip(pair.value.value, Q)) ELSE info
    ELSE IF pair.name = "required"
    THEN IF IsLiteral(pair.value)
         THEN Put(info, "required", pair.value.value = <<"true">>)
         ELSE IF IsMemberRef(pair.value)
              THEN Put(info, "required", pair.value.member = <<"true">>)
              ELSE info
    ELSE IF pair.name = "value" \/ pair.name = "name"
    THEN IF IsLiteral(pair.value)
         THEN Put(info, "alias", Strip(pair.value.value, Q)) ELSE info
    ELSE info

RECURSIVE RequestParamFold(_, _)
RequestParamFold(info, pairs) ==
    IF pairs = <<>> THEN info
    ELSE RequestParamFold(RequestParamPair(info, Head(pairs)), Tail(pairs))

_extract_request_param_details(annotation, param_info) ==
    IF Truthy(annotation.element) /\ IsPairList(annotation.element)
    THEN RequestParamFold(param_info, annotation.element.pairs)
    ELSE param_info

\* variant: the PathVariable branch sets param_type only
ParamAnnotationStepKeepsRequired(info, ann) ==
    IF ann.name = "RequestParam"
    THEN _extract_request_param_details(ann, Put(info, "param_type", "query"))
    ELSE IF ann.name = "PathVariable"
    THEN Put(info, "param_type", "path")
    ELSE IF ann.name = "RequestBody"
    THEN Put(Put(info, "param_type", "body"), "required", TRUE)
    ELSE IF ann.name = "RequestHeader"
    THEN _extract_request_param_details(ann, Put(info, "param_type", "header"))
    ELSE info

\* one iteration of the loop over param.annotations
ParamAnnotationStep(info, ann) ==
    IF ann.name = "RequestParam"
    THEN _extract_request_param_details(ann, Put(info, "param_type", "query"))
    ELSE IF ann.name = "PathVariable"
    THEN Put(Put(info, "param_type", "path"), "required", TRUE)
    ELSE IF ann.name = "RequestBody"
    THEN Put(Put(info, "param_type", "body"), "required", TRUE)
    ELSE IF ann.name = "RequestHeader"
    THEN _extract_request_param_details(ann, Put(info, "param_type", "header"))
    ELSE info

RECURSIVE ParamAnnotationFold(_, _)
ParamAnnotationFold(info, annotations) ==
    IF annotations = <<>> THEN info
    ELSE ParamAnnotationFold(ParamAnnotationStep(info, Head(annotations)),
                             Tail(annotations))

ParamInfo(param) ==
    LET base == [name |-> param.name, type |-> param.type.name]
    IN  IF param.annotations # <<>>
        THEN ParamAnnotationFold(Put(base, "annotations", _get_annotations(param)),
                                 param.annotations)
        ELSE base

_extract_parameters(method) ==
    [i \in 1..Len(method.parameters) |-> ParamInfo(method.parameters[i])]

\* the names _extract_return_type collects from return_type.arguments: a
\* TypeArgument has `type` (None for the wildcard) and no `name`
RECURSIVE GenericArgNames(_)
GenericArgNames(arguments) ==
    IF arguments = <<>> THEN <<>>
    ELSE (IF ~IsNone(Head(arguments).type) THEN <<Head(arguments).type.name>> ELSE <<>>)
             \o GenericArgNames(Tail(arguments))

_extract_return_type(method) ==
    IF IsNone(method.return_type) THEN <<"void">>
    ELSE LET type_name == method.return_type.name
             generic_args == GenericArgNames(method.return_type.arguments)
         IN  IF generic_args # <<>>
             THEN type_name \o <<"<">> \o Join(<<", ">>, generic_args) \o <<">">>
             ELSE type_name

----------------------------------------------------------------------------
(* Annotation readers of the message and schedule extractors *)

\* a returned str, and an exception leaving the function
Returned(v) == [raised |-> FALSE, value |-> v]
Raised == [raised |-> TRUE]

\* ", ".join(item.value.strip('"') for the Literal items)
JoinLiterals(values) == Join(<<", ">>, LiteralValues(values))

\* what _extract_annotation_param does with one annotation of the requested
\* name: Returned(v), Raised, or None when the loop goes on
AnnotationParamOf(e, param_name) ==
    IF ~Truthy(e) THEN None
    ELSE IF IsLiteral(e) THEN Returned(Strip(e.value, Q))
    ELSE IF IsPairList(e)
         THEN LET hit(i) ==
                      /\ e.pairs[i].name = param_name
                      /\ (IsLiteral(e.pairs[i].value) \/ IsArray(e.pairs[i].value))
                  hits == {i \in 1..Len(e.pairs) : hit(i)}
                  first == CHOOSE i \in hits : \A j \in hits : i <= j
              IN  IF hits = {} THEN None
                  ELSE IF IsLiteral(e.pairs[first].value)
                       THEN Returned(Strip(e.pairs[first].value.value, Q))
                       ELSE Returned(JoinLiterals(e.pairs[first].value.values))
    \* lines 543-554: the items of an ElementArrayValue are read as pairs; an
    \* item with a `name` equal to param_name is a nested Annotation, and
    \* reading its `value` raises AttributeError
    ELSE IF IsArray(e)
         THEN IF \E i \in 1..Len(e.values) :
                     HasName(e.values[i]) /\ e.values[i].name = param_name
              THEN Raised
              ELSE None
    ELSE None

RECURSIVE AnnotationParamFrom(_, _, _, _)
AnnotationParamFrom(annotations, i, annotation_name, param_name) ==
    IF i > Len(annotations) THEN Returned(<<>>)
    ELSE IF annotations[i].name = annotation_name
            /\ ~IsNone(AnnotationParamOf(annotations[i].element, param_name))
         THEN AnnotationParamOf(annotations[i].element, param_name)
         ELSE AnnotationParamFrom(annotations, i + 1, annotation_name, param_name)

_extract_annotation_param(method, annotation_name, param_name) ==
    AnnotationParamFrom(method.annotations, 1, annotation_name, param_name)

\* str(node) of a node that is no Literal: its repr, one opaque symbol
Repr(e) == <<"<", e.shape, ">">>

\* f"{pair.name}={value_str}" for one pair of a Scheduled annotation
SchedulePart(pair) ==
    LET value_str == IF IsLiteral(pair.value) THEN pair.value.value ELSE Repr(pair.value)
    IN  <<pair.name, "=">> \o Strip(value_str, Q)

RECURSIVE ScheduleInfoFrom(_, _)
ScheduleInfoFrom(annotations, i) ==
    IF i > Len(annotations) THEN <<"Unknown schedule">>
    ELSE IF /\ annotations[i].name = "Scheduled"
            /\ Truthy(annotations[i].element)
            /\ IsPairList(annotations[i].element)
         THEN Join(<<", ">>, [k \in 1..Len(annotations[i].element.pairs) |->
                                       SchedulePart(annotations[i].element.pairs[k])])
         \* lines 579-585: the items of an ElementArrayValue have no `value`
         \* next to a `name`, so schedule_parts stays empty
         ELSE ScheduleInfoFrom(annotations, i + 1)

_extract_schedule_info(method) == ScheduleInfoFrom(method.annotations, 1)

----------------------------------------------------------------------------
(* Category extractors.  Each returns the entry points it appends to        *)
(* self.entry_points, in order, and whether an exception left it.          *)

EntryPoint(type, class_node, method_name, file_path, package_name, details) ==
    [type |-> type,
     class_name |-> package_name \o <<".">> \o class_node.name,
     method_name |-> method_name,
     file_path |-> file_path,
     details |-> details]

Extracted(eps) == [eps |-> eps, raised |-> FALSE]

\* base_path + path with '//' replaced, as lines 161 and 203 compute it
CollapsedPath(base_path, path) == Replace(base_path \o path, <<"/", "/">>, <<"/">>)

\* lines 161-165
FullPath(base_path, path) ==
    LET full_path == CollapsedPath(base_path, path)
    IN  IF full_path # <<>> /\ ~StartsWith(full_path, <<"/">>)
        THEN <<"/">> \o full_path
        ELSE full_path

\* the class-level fields kept under the method-level ones
ResolvedSecurityMerged(method_security, class_security) ==
    IF IsNone(method_security) THEN class_security
    ELSE IF IsNone(class_security) THEN method_security
    ELSE [k \in (DOMAIN class_security) \cup (DOMAIN method_security) |->
             IF k \in DOMAIN method_security THEN method_security[k]
             ELSE class_security[k]]

\* lines 168-169
ResolvedSecurity(method_security, class_security) ==
    IF ~IsNone(method_security) THEN method_security ELSE class_security

RestEntry(class_node, method, mapping, file_path, package_name) ==
    EntryPoint("REST", class_node, method.name, file_path, package_name,
        [http_method |-> _get_http_method(mapping, method),
         path |-> FullPath(_extract_request_mapping(class_node),
                           _extract_method_path(method)),
         parameters |-> _extract_parameters(method),
         return_type |-> _extract_return_type(method),
         security |-> ResolvedSecurity(_extract_security_annotations(method),
                                       _extract_security_annotations(class_node))])

\* the inner loop over mapping_types for one method
RECURSIVE RestEntriesOf(_, _, _, _, _)
RestEntriesOf(class_node, method, k, file_path, package_name) ==
    IF k > Len(mapping_types) THEN <<>>
    ELSE (IF InList(mapping_types[k], _get_annotations(method))
          THEN <<RestEntry(class_node, method, mapping_types[k], file_path, package_name)>>
          ELSE <<>>)
         \o RestEntriesOf(class_node, method, k + 1, file_path, package_name)

_extract_rest_endpoints(class_node, file_path, package_name) ==
    Extracted(Flatten([i \in 1..Len(class_node.methods) |->
        RestEntriesOf(class_node, class_node.methods[i], 1, file_path, package_name)]))

http_methods == <<"GET", "POST", "PUT", "DELETE", "PATCH">>

JaxrsEntry(class_node, method, http_method, file_path, package_name) ==
    EntryPoint("REST", class_node, method.name, file_path, package_name,
        [http_method |-> http_method,
         path |-> CollapsedPath(_extract_path_annotation(class_node),
                                _extract_path_annotation(method)),
         framework |-> "JAX-RS",
         parameters |-> _extract_parameters(method)])

RECURSIVE JaxrsEntriesOf(_, _, _, _, _)
JaxrsEntriesOf(class_node, method, k, file_path, package_name) ==
    IF k > Len(http_methods) THEN <<>>
    ELSE (IF InList(http_methods[k], _get_annotations(method))
          THEN <<JaxrsEntry(class_node, method, http_methods[k], file_path, package_name)>>
          ELSE <<>>)
         \o JaxrsEntriesOf(class_node, method, k + 1, file_path, package_name)

_extract_jaxrs_endpoints(class_node, file_path, package_name) ==
    Extracted(Flatten([i \in 1..Len(class_node.methods) |->
        JaxrsEntriesOf(class_node, class_node.methods[i], 1, file_path, package_name)]))

_extract_main_entry_point(class_node, file_path, package_name) ==
    Extracted(<<EntryPoint("MAIN_APPLICATION", class_node, <<"main">>, file_path,
        package_name,
        [annotation |-> "SpringBootApplication",
         description |-> <<"Application startup entry point">>])>>)

\* the loop of _extract_message_listeners from method i on, eps appended so far
RECURSIVE MessageListenersFrom(_, _, _, _, _)
MessageListenersFrom(class_node, i, eps, file_path, package_name) ==
    IF i > Len(class_node.methods) THEN Extracted(eps)
    ELSE LET method == class_node.methods[i]
             method_annotations == _get_annotations(method)
             topics == _extract_annotation_param(method, "KafkaListener", "topics")
             destination == _extract_annotation_param(method, "JmsListener", "destination")
         IN  IF InList("KafkaListener", method_annotations)
             THEN IF topics.raised THEN [eps |-> eps, raised |-> TRUE]
                  ELSE MessageListenersFrom(class_node, i + 1,
                           Append(eps, EntryPoint("MESSAGE_CONSUMER", class_node,
                               method.name, file_path, package_name,
                               [consumer_type |-> "Kafka",
                                topics |-> topics.value,
                                parameters |-> _extract_parameters(method)])),
                           file_path, package_name)
             ELSE IF InList("JmsListener", method_annotations)
             THEN IF destination.raised THEN [eps |-> eps, raised |-> TRUE]
                  ELSE MessageListenersFrom(class_node, i + 1,
                           Append(eps, EntryPoint("MESSAGE_CONSUMER", class_node,
                               method.name, file_path, package_name,
                               [consumer_type |-> "JMS",
                                destination |-> destination.value,
                                parameters |-> _extract_parameters(method)])),
                           file_path, package_name)
             ELSE MessageListenersFrom(class_node, i + 1, eps, file_path, package_name)

_extract_message_listeners(class_node, file_path, package_name) ==
    MessageListenersFrom(class_node, 1, <<>>, file_path, package_name)

IsBatchJobMethod(method) ==
    /\ InList("Bean", _get_annotations(method))
    /\ ~IsNone(method.return_type)
    /\ Contains(<<"Job">>, method.return_type.name)

_extract_batch_jobs(class_node, file_path, package_name) ==
    Extracted(Flatten([i \in 1..Len(class_node.methods) |->
        IF IsBatchJobMethod(class_node.methods[i])
        THEN <<EntryPoint("BATCH_JOB", class_node, class_node.methods[i].name,
                   file_path, package_name,
                   [job_type |-> "Spring Batch",
                    description |-> <<"Batch job: ">> \o class_node.methods[i].name])>>
        ELSE <<>>]))

_extract_scheduled_tasks(class_node, file_path, package_name) ==
    Extracted(Flatten([i \in 1..Len(class_node.methods) |->
        IF InList("Scheduled", _get_annotations(class_node.methods[i]))
        THEN <<EntryPoint("SCHEDULED_TASK", class_node, class_node.methods[i].name,
                   file_path, package_name,
                   [schedule |-> _extract_schedule_info(class_node.methods[i]),
                    description |-> <<"Scheduled task: ">> \o class_node.methods[i].name])>>
        ELSE <<>>]))

_extract_cli_entry_point(class_node, file_path, package_name) ==
    Extracted(<<EntryPoint("CLI", class_node, <<"main">>, file_path, package_name,
        [description |-> <<"Command-line interface entry point">>])>>)

----------------------------------------------------------------------------
(* _analyze_class *)

\* the chain with the message-consumer and batch branches moved to the front
primary_chain_reordered ==
    <<"message", "batch", "rest", "jaxrs", "main_application", "cli">>

\* the predicates of the if/elif chain of lines 70-92, in its order
primary_chain == <<"rest", "jaxrs", "main_application", "message", "batch", "cli">>

Matches(category, class_node) ==
    CASE category = "rest" -> _is_rest_controller(_get_annotations(class_node))
      [] category = "jaxrs" -> _is_jaxrs_resource(_get_annotations(class_node))
      [] category = "main_application" ->
             _is_spring_boot_app(_get_annotations(class_node))
      [] category = "message" -> _is_message_consumer(_get_annotations(class_node))
      [] category = "batch" -> _is_batch_job(_get_annotations(class_node))
      [] category = "cli" -> _has_main_method(class_node)

\* the chain with `if` in place of every `elif`: every matching branch runs
RECURSIVE ChainFromEveryMatch(_, _)
ChainFromEveryMatch(class_node, k) ==
    IF k > Len(primary_chain) THEN <<>>
    ELSE (IF Matches(primary_chain[k], class_node) THEN <<primary_chain[k]>> ELSE <<>>)
             \o ChainFromEveryMatch(class_node, k + 1)

\* the extractors the chain calls from its k-th branch on: a branch that is
\* taken ends the chain
RECURSIVE ChainFrom(_, _)
ChainFrom(class_node, k) ==
    IF k > Len(primary_chain) THEN <<>>
    ELSE IF Matches(primary_chain[k], class_node) THEN <<primary_chain[k]>>
    ELSE ChainFrom(class_node, k + 1)

RunExtractor(category, class_node, file_path, package_name) ==
    CASE category = "rest" -> _extract_rest_endpoints(class_node, file_path, package_name)
      [] category = "jaxrs" -> _extract_jaxrs_endpoints(class_node, file_path, package_name)
      [] category = "main_application" ->
             _extract_main_entry_point(class_node, file_path, package_name)
      [] category = "message" ->
             _extract_message_listeners(class_node, file_path, package_name)
      [] category = "batch" -> _extract_batch_jobs(class_node, file_path, package_name)
      [] category = "cli" -> _extract_cli_entry_point(class_node, file_path, package_name)
      [] category = "scheduled" ->
             _extract_scheduled_tasks(class_node, file_path, package_name)
      [] OTHER -> Extracted(<<>>)

\* whether lines 96-97 run the scheduled-task extractor once the chain of
\* lines 70-92, which called the extractors `chain`, has returned
RunsScheduled(class_node, chain) == _has_scheduled_methods(class_node)

\* the extractors `categories` called one after the other, as far as no
\* exception leaves one
RECURSIVE RunAll(_, _, _, _, _)
RunAll(categories, done, class_node, file_path, package_name) ==
    IF categories = <<>> THEN done
    ELSE LET r == RunExtractor(Head(categories), class_node, file_path, package_name)
             now == [eps |-> done.eps \o r.eps,
                     calls |-> Append(done.calls, Head(categories)),
                     raised |-> r.raised]
         IN  IF r.raised THEN now
             ELSE RunAll(Tail(categories), now, class_node, file_path, package_name)

\* variant: the scheduled-task extractor runs before the chain
_analyze_class_scheduled_first(class_node, file_path, package_name) ==
    LET chain == ChainFrom(class_node, 1)
        categories ==
            IF RunsScheduled(class_node, chain) THEN <<"scheduled">> \o chain ELSE chain
    IN  RunAll(categories, [eps |-> <<>>, calls |-> <<>>, raised |-> FALSE],
               class_node, file_path, package_name)

\* the entry points _analyze_class appends, the extractors it calls, in
\* order, and whether an exception leaves it
_analyze_class(class_node, file_path, package_name) ==
    LET chain == ChainFrom(class_node, 1)
        categories ==
            IF RunsScheduled(class_node, chain) THEN Append(chain, "scheduled") ELSE chain
    IN  RunAll(categories, [eps |-> <<>>, calls |-> <<>>, raised |-> FALSE],
               class_node, file_path, package_name)

----------------------------------------------------------------------------
(* Inputs of _analyze_class: class declarations *)

\* most methods of a class declaration of the inputs
MaxMethods == 2

class_markers ==
    <<"RestController", "Controller", "Path", "SpringBootApplication", "Component",
      "Service", "Configuration", "EnableBatchProcessing">>

\* the annotations of `markers` that are in S, in declaration order, without
\* arguments
RECURSIVE MarkerAnnotations(_, _)
MarkerAnnotations(markers, S) ==
    IF markers = <<>> THEN <<>>
    ELSE (IF Head(markers) \in S THEN <<Annotation(Head(markers), Absent)>> ELSE <<>>)
             \o MarkerAnnotations(Tail(markers), S)

\* a reference type without type arguments, qualifier or dimensions
RefType(name) == ReferenceType(name, <<>>, None, <<>>)

Method(name, annotations, modifiers, return_type, parameters) ==
    [name |-> name, annotations |-> annotations, modifiers |-> modifiers,
     return_type |-> return_type, parameters |-> parameters]

Scheduled == Annotation("Scheduled", Pairs(<<Pair("fixedRate", Literal(<<"5000">>))>>))
KafkaListener == Annotation("KafkaListener", Pairs(<<Pair("topics", StrLit(<<"orders">>))>>))
\* @KafkaListener({@topics})
KafkaListenerNested ==
    Annotation("KafkaListener", ArrayValue(<<NestedAnnotation("topics", Absent)>>))

\* the kinds of method the class declarations are built from
method_kinds ==
    {"scheduled", "kafka", "kafka_nested", "kafka_scheduled", "bean_job", "get_mapping",
     "jaxrs_get", "main", "plain"}

\* the i-th method of a class: methods of one class have distinct names
MethodName(i) == <<"m">> \o [k \in 1..i |-> "'"]

MethodOfKind(kind, i) ==
    CASE kind = "scheduled" -> Method(MethodName(i), <<Scheduled>>, {"public"}, None, <<>>)
      [] kind = "kafka" -> Method(MethodName(i), <<KafkaListener>>, {"public"}, None, <<>>)
      [] kind = "kafka_nested" ->
             Method(MethodName(i), <<KafkaListenerNested>>, {"public"}, None, <<>>)
      [] kind = "kafka_scheduled" ->
             Method(MethodName(i), <<KafkaListener, Scheduled>>, {"public"}, None, <<>>)
      [] kind = "bean_job" ->
             Method(MethodName(i), <<Annotation("Bean", Absent)>>, {"public"},
                    RefType(<<"Job">>), <<>>)
      [] kind = "get_mapping" ->
             Method(MethodName(i), <<Annotation("GetMapping", StrLit(<<"/", "a">>))>>,
                    {"public"}, RefType(<<"String">>), <<>>)
      [] kind = "jaxrs_get" ->
             Method(MethodName(i), <<Annotation("GET", Absent)>>, {"public"},
                    RefType(<<"String">>), <<>>)
      [] kind = "main" -> Method(<<"main">>, <<>>, {"public", "static"}, None, <<>>)
      [] kind = "plain" -> Method(MethodName(i), <<>>, {"public"}, None, <<>>)

\* the lists of at most n method kinds
KindLists(n) == UNION {[1..k -> method_kinds] : k \in 0..n}

ClassNode(name, annotations, methods) ==
    [name |-> name, annotations |-> annotations, methods |-> methods]

ClassNodes ==
    {ClassNode(<<"C">>, MarkerAnnotations(class_markers, S),
               [i \in 1..Len(kinds) |-> MethodOfKind(kinds[i], i)]) :
        S \in SUBSET {class_markers[k] : k \in 1..Len(class_markers)},
        kinds \in KindLists(MaxMethods)}

\* longest class-level and method-level path of the inputs
MaxPathLen == 2

\* most security annotations on a method of the inputs
MaxSecurity == 2

path_symbols == {"/", "a"}

\* the path strings of at most n symbols
PathStrings(n) == UNION {[1..k -> path_symbols] : k \in 0..n}

\* @RestController @RequestMapping("<base>") class P { @GetMapping("<path>") m() }
ControllerWithPaths(base, path) ==
    ClassNode(<<"P">>,
        <<Annotation("RestController", Absent), Annotation("RequestMapping", StrLit(base))>>,
        <<Method(MethodName(1), <<Annotation("GetMapping", StrLit(path))>>, {"public"},
                 RefType(<<"String">>), <<>>)>>)

\* @Path("<base>") class P { @GET @Path("<path>") m() }
ResourceWithPaths(base, path) ==
    ClassNode(<<"P">>, <<Annotation("Path", StrLit(base))>>,
        <<Method(MethodName(1),
                 <<Annotation("GET", Absent), Annotation("Path", StrLit(path))>>,
                 {"public"}, RefType(<<"String">>), <<>>)>>)

\* a controller without any mapping value, and a resource without method path
ControllerWithoutPaths ==
    ClassNode(<<"P">>, <<Annotation("Controller", Absent)>>,
        <<Method(MethodName(1), <<Annotation("RequestMapping", Absent)>>, {"public"},
                 None, <<>>)>>)

PathClassNodes ==
    {ControllerWithPaths(base, path) : base \in PathStrings(MaxPathLen),
                                        path \in PathStrings(MaxPathLen)}
    \cup {ResourceWithPaths(base, path) : base \in PathStrings(MaxPathLen),
                                           path \in PathStrings(MaxPathLen)}
    \cup {ControllerWithoutPaths}

\* the security annotations the inputs draw from; Deprecated is not one
security_annotations ==
    {Annotation("PreAuthorize",
         StrLit(<<"hasRole", "(", "'", "ADMIN", "'", ")">>)),
     Annotation("PreAuthorize", StrLit(<<"isAuthenticated", "(", ")">>)),
     Annotation("Secured", ArrayValue(<<StrLit(<<"ADMIN">>)>>)),
     Annotation("Secured", StrLit(<<"USER">>)),
     Annotation("RolesAllowed", ArrayValue(<<StrLit(<<"USER">>), StrLit(<<"ADMIN">>)>>)),
     Annotation("PermitAll", Absent),
     Annotation("DenyAll", Absent),
     Annotation("Deprecated", Absent)}

SecurityLists(n) == UNION {[1..k -> security_annotations] : k \in 0..n}

\* @RestController <class security> class S { @GetMapping <method security> m() }
ControllerWithSecurity(class_security, method_security) ==
    ClassNode(<<"S">>, <<Annotation("RestController", Absent)>> \o class_security,
        <<Method(MethodName(1), <<Annotation("GetMapping", Absent)>> \o method_security,
                 {"public"}, RefType(<<"String">>), <<>>)>>)

\* @Path("/a") <class security> class S { @GET <method security> m() }
ResourceWithSecurity(class_security, method_security) ==
    ClassNode(<<"S">>, <<Annotation("Path", StrLit(<<"/", "a">>))>> \o class_security,
        <<Method(MethodName(1), <<Annotation("GET", Absent)>> \o method_security,
                 {"public"}, RefType(<<"String">>), <<>>)>>)

SecurityClassNodes ==
    {ControllerWithSecurity(c, m) : c \in SecurityLists(1), m \in SecurityLists(MaxSecurity)}
    \cup {ResourceWithSecurity(c, m) : c \in SecurityLists(1), m \in SecurityLists(1)}

\* the mapping annotations of the controller methods of the inputs: the five
\* verb-specific ones and RequestMapping without arguments, with a path,
\* with method = RequestMethod.POST, and with a path and method = DELETE
mapping_annotations ==
    {Annotation("GetMapping", Absent),
     Annotation("PostMapping", StrLit(<<"/", "a">>)),
     Annotation("PutMapping", Absent),
     Annotation("DeleteMapping", Absent),
     Annotation("PatchMapping", Absent),
     Annotation("RequestMapping", Absent),
     Annotation("RequestMapping", StrLit(<<"/", "a">>)),
     Annotation("RequestMapping", Pairs(<<Pair("method", MemberRef(<<"POST">>))>>)),
     Annotation("RequestMapping",
         Pairs(<<Pair("value", StrLit(<<"/", "a">>)),
                 Pair("method", MemberRef(<<"DELETE">>))>>))}

\* @RestController class V { <mapping> String m() }
VerbClassNodes ==
    {ClassNode(<<"V">>, <<Annotation("RestController", Absent)>>,
         <<Method(MethodName(1), <<mapping>>, {"public"}, RefType(<<"String">>), <<>>)>>) :
        mapping \in mapping_annotations}

file_path_A == <<"A.java">>
package_a == <<"a">>

----------------------------------------------------------------------------
(* SpecAnalyze: one call of _analyze_class on a new parser *)

InitAnalyze ==
    /\ entry_points = <<>>
    /\ java_files = <<>>
    /\ file_idx = 0
    /\ calls = <<>>
    /\ pc = "analyze"
    /\ log = <<>>
    /\ node \in ClassNodes \cup PathClassNodes \cup SecurityClassNodes
                 \cup VerbClassNodes
    /\ result = None
    /\ NoExtractor

AnalyzeClass ==
    /\ pc = "analyze"
    /\ LET r == _analyze_class(node, file_path_A, package_a)
       IN  /\ entry_points' = entry_points \o r.eps
           /\ calls' = r.calls
           /\ pc' = IF r.raised THEN "raised" ELSE "done"
    /\ UNCHANGED <<java_files, file_idx, log, node, result>>
    /\ UNCHANGED schema_vars

NextAnalyze == AnalyzeClass

SpecAnalyze == InitAnalyze /\ [][NextAnalyze]_vars

\* the entry points of kind `type` a list holds for the method named `name`
EntriesFor(eps, type, name) ==
    {i \in 1..Len(eps) : eps[i].type = type /\ eps[i].method_name = name}

HasType(eps, type) == \E i \in 1..Len(eps) : eps[i].type = type

\* the calls of primary extractors among `calls`
PrimaryCalls == SelectSeq(calls, LAMBDA c : c # "scheduled")

MatchingBranches == {k \in 1..Len(primary_chain) : Matches(primary_chain[k], node)}

\* C1: once _analyze_class has run on a class, it has called at most one of
\* the six primary extractors: none when no predicate of the chain holds of
\* the class, and otherwise exactly the extractor of the first predicate, in
\* priority order, that holds.
C1_FirstMatchOnly ==
    pc # "analyze" =>
        /\ Len(PrimaryCalls) <= 1
        /\ MatchingBranches = {} => PrimaryCalls = <<>>
        /\ \A k \in MatchingBranches :
               (\A j \in MatchingBranches : k <= j) => PrimaryCalls = <<primary_chain[k]>>

\* a class matching three predicates has been analysed and only the REST
\* extractor was called
C1_Witness ==
    /\ pc = "done"
    /\ {1, 2, 4} \subseteq MatchingBranches
    /\ PrimaryCalls = <<"rest">>

\* C2: once _analyze_class has run, every method carrying Scheduled has
\* exactly one SCHEDULED_TASK entry point, whatever the primary extractor.
C2_ScheduledAlwaysEmitted ==
    pc # "analyze" =>
        \A i \in 1..Len(node.methods) :
            InList("Scheduled", _get_annotations(node.methods[i])) =>
                Cardinality(EntriesFor(entry_points, "SCHEDULED_TASK",
                                       node.methods[i].name)) = 1

\* the class under analysis carries the class-level marker m
Marked(m) == InList(m, _get_annotations(node))

\* C3: a class with a controller marker and Component/Service yields no
\* MESSAGE_CONSUMER entry, and a class with Component/Service, Configuration
\* and EnableBatchProcessing yields no BATCH_JOB entry, whatever its methods.
C3_LowerPriorityDiscarded ==
    pc # "analyze" =>
        /\ ((Marked("RestController") \/ Marked("Controller"))
               /\ (Marked("Component") \/ Marked("Service")))
           => ~HasType(entry_points, "MESSAGE_CONSUMER")
        /\ ((Marked("Component") \/ Marked("Service"))
               /\ Marked("Configuration") /\ Marked("EnableBatchProcessing"))
           => ~HasType(entry_points, "BATCH_JOB")

\* a Service that is a batch configuration and has a Bean method returning a
\* Job and a listener method has been analysed as a message consumer
C3_Witness ==
    /\ pc = "done"
    /\ Marked("Service") /\ Marked("Configuration") /\ Marked("EnableBatchProcessing")
    /\ \E i \in 1..Len(node.methods) : IsBatchJobMethod(node.methods[i])
    /\ calls = <<"message">>
    /\ HasType(entry_points, "MESSAGE_CONSUMER")

\* the REST entry points of the list
RestEntries(eps) == SelectSeq(eps, LAMBDA e : e.type = "REST")

\* entry points of a controller class carry the key "security"; those of a
\* path-based resource class carry "framework"
IsControllerEntry(e) == e.type = "REST" /\ "security" \in DOMAIN e.details

recognised_security == {"PreAuthorize", "Secured", "RolesAllowed", "PermitAll", "DenyAll"}

CarriesSecurityMarker(n) ==
    \E i \in 1..Len(n.annotations) : n.annotations[i].name \in recognised_security

\* the method of the class under analysis an entry point was emitted for
MethodNamed(name) ==
    node.methods[CHOOSE i \in 1..Len(node.methods) : node.methods[i].name = name]

SecuredAdmin == Annotation("Secured", ArrayValue(<<StrLit(<<"ADMIN">>)>>))

\* C4: the security of a controller entry point is the method-level
\* resolution when the method carries a recognised security marker, and the
\* class-level resolution otherwise.  Under a class-level Secured({"ADMIN"})
\* a method without marker gets roles ["ADMIN"], and a method with PermitAll
\* alone gets requires_auth false and no roles.
C4_MethodSecurityReplacesClass ==
    pc = "done" =>
        \A i \in 1..Len(entry_points) :
            IsControllerEntry(entry_points[i]) =>
                LET method == MethodNamed(entry_points[i].method_name)
                    security == entry_points[i].details.security
                IN  /\ CarriesSecurityMarker(method) =>
                           security = _extract_security_annotations(method)
                    /\ ~CarriesSecurityMarker(method) =>
                           security = _extract_security_annotations(node)
                    /\ node = ControllerWithSecurity(<<SecuredAdmin>>, <<>>) =>
                           security.roles = <<<<"ADMIN">>>>
                    /\ node = ControllerWithSecurity(<<SecuredAdmin>>,
                                  <<Annotation("PermitAll", Absent)>>) =>
                           /\ security.requires_auth = FALSE
                           /\ "roles" \notin DOMAIN security

\* a method with PermitAll in a class with Secured({"ADMIN"}) was extracted
C4_Witness ==
    /\ pc = "done"
    /\ node = ControllerWithSecurity(<<SecuredAdmin>>, <<Annotation("PermitAll", Absent)>>)
    /\ Len(entry_points) = 1
    /\ entry_points[1].details.security.type = "PermitAll"

\* the slash-collapsing step of lines 161 and 203
Collapse(path) == Replace(path, <<"/", "/">>, <<"/">>)

\* C5: the path of every REST entry point holds no "//", and collapsing its
\* double slashes again leaves it unchanged.
C5_PathHasNoDoubleSlash ==
    pc = "done" =>
        \A i \in 1..Len(entry_points) :
            entry_points[i].type = "REST" =>
                /\ ~Contains(<<"/", "/">>, entry_points[i].details.path)
                /\ Collapse(entry_points[i].details.path) = entry_points[i].details.path

----------------------------------------------------------------------------
(* parse_file and parse_repository *)

\* a *.java file: its path, whether javalang.parse.parse accepts its text,
\* its package and its class declarations in the order tree.filter yields
JavaFile(path, parsable, package_name, classes) ==
    [path |-> path, parsable |-> parsable, package_name |-> package_name,
     classes |-> classes]

\* the loop of parse_file (lines 55-56) over the classes, from class i on, on
\* the outcomes _analyze_class has for them: the entry points appended until
\* the loop ends or a class raises
RECURSIVE AnalyzeClassesFrom(_, _, _)
AnalyzeClassesFrom(outcomes, i, eps) ==
    IF i > Len(outcomes) THEN [eps |-> eps, raised |-> FALSE]
    ELSE IF outcomes[i].raised
         THEN [eps |-> eps \o outcomes[i].eps, raised |-> TRUE]
         ELSE AnalyzeClassesFrom(outcomes, i + 1, eps \o outcomes[i].eps)

\* _analyze_class on every class of the file
ClassOutcomes(file) ==
    [i \in 1..Len(file.classes) |->
        _analyze_class(file.classes[i], file.path, file.package_name)]

\* parse_file: the entry points it appends and the warning it prints
parse_file(file) ==
    IF ~file.parsable
    THEN [eps |-> <<>>, warning |-> <<[kind |-> "Syntax error", file |-> file.path]>>]
    ELSE LET r == AnalyzeClassesFrom(ClassOutcomes(file), 1, <<>>)
         IN  [eps |-> r.eps,
              warning |-> IF r.raised
                          THEN <<[kind |-> "Error processing", file |-> file.path]>>
                          ELSE <<>>]

\* most files of a source tree of the inputs
MaxFiles == 3

RestFile ==
    JavaFile(<<"Rest.java">>, TRUE, <<"a">>,
        <<ClassNode(<<"Rest">>, <<Annotation("RestController", Absent)>>,
              <<MethodOfKind("get_mapping", 1), MethodOfKind("scheduled", 2)>>)>>)

ListenerFile ==
    JavaFile(<<"Listener.java">>, TRUE, <<"a">>,
        <<ClassNode(<<"Listener">>, <<Annotation("Component", Absent)>>,
              <<MethodOfKind("kafka", 1)>>)>>)

\* a file javalang rejects with JavaSyntaxError
BrokenFile == JavaFile(<<"Broken.java">>, FALSE, <<>>, <<>>)

\* a file whose second class makes _extract_annotation_param raise
NestedFile ==
    JavaFile(<<"Nested.java">>, TRUE, <<"b">>,
        <<ClassNode(<<"App">>, <<Annotation("SpringBootApplication", Absent)>>,
              <<MethodOfKind("main", 1)>>),
          ClassNode(<<"Nested">>, <<Annotation("Service", Absent)>>,
              <<MethodOfKind("kafka", 1), MethodOfKind("kafka_nested", 2),
                MethodOfKind("scheduled", 3)>>)>>)

\* a file without entry points
PlainFile ==
    JavaFile(<<"Plain.java">>, TRUE, <<"b">>,
        <<ClassNode(<<"Plain">>, <<>>, <<MethodOfKind("plain", 1)>>)>>)

source_files == {RestFile, ListenerFile, BrokenFile, NestedFile, PlainFile}

\* the listings rglob can return: at most n files, each path once
SourceTrees(n) ==
    UNION {{t \in [1..k -> source_files] : \A i, j \in 1..k : t[i] = t[j] => i = j} :
           k \in 0..n}

Init ==
    /\ entry_points = <<>>
    /\ java_files = <<>>
    /\ file_idx = 0
    /\ calls = <<>>
    /\ pc = "idle"
    /\ log = <<>>
    /\ node \in SourceTrees(MaxFiles)
    /\ result = None
    /\ NoExtractor

\* parse_repository, line 32
ListFiles ==
    /\ pc = "idle"
    /\ java_files' = node
    /\ file_idx' = 0
    /\ pc' = "scanning"
    /\ UNCHANGED <<entry_points, calls, log, node, result>>
    /\ UNCHANGED schema_vars

\* variant: the list is started anew for every file
ParseFileStartingAnew ==
    /\ pc = "scanning"
    /\ file_idx < Len(java_files)
    /\ LET r == parse_file(java_files[file_idx + 1])
       IN  /\ entry_points' = r.eps
           /\ log' = log \o r.warning
           /\ pc' = "scanning"
    /\ file_idx' = file_idx + 1
    /\ UNCHANGED <<java_files, calls, node, result>>
    /\ UNCHANGED schema_vars

\* parse_repository, lines 35-39: one iteration of the loop
ParseFile ==
    /\ pc = "scanning"
    /\ file_idx < Len(java_files)
    /\ LET r == parse_file(java_files[file_idx + 1])
       IN  /\ entry_points' = entry_points \o r.eps
           /\ log' = log \o r.warning
           /\ pc' = "scanning"
    /\ file_idx' = file_idx + 1
    /\ UNCHANGED <<java_files, calls, node, result>>
    /\ UNCHANGED schema_vars

\* parse_repository, line 41
ReturnEntryPoints ==
    /\ pc = "scanning"
    /\ file_idx = Len(java_files)
    /\ result' = entry_points
    /\ pc' = "returned"
    /\ UNCHANGED <<entry_points, java_files, file_idx, calls, log, node>>
    /\ UNCHANGED schema_vars

Next == ListFiles \/ ParseFile \/ ReturnEntryPoints

Spec == Init /\ [][Next]_vars

\* the entry points of the list that were emitted for the file `path`
EntriesOfFile(eps, path) == SelectSeq(eps, LAMBDA e : e.file_path = path)

\* the processing of the file failed: one of the except clauses printed
Failed(file) == \E i \in 1..Len(log) : log[i].file = file.path

\* C8: when parse_repository returns, a file whose processing failed has
\* contributed no entry point, and every other file has contributed exactly
\* the entry points it contributes when it is scanned alone.
C8_FailedFileContributesNothing ==
    pc = "returned" =>
        \A k \in 1..Len(java_files) :
            LET mine == EntriesOfFile(entry_points, java_files[k].path)
            IN  IF Failed(java_files[k]) THEN mine = <<>>
                ELSE mine = parse_file(java_files[k]).eps

----------------------------------------------------------------------------
(* Model schema extractor: type strings *)

\* _get_qualified_type: the name of the last node of the sub_type chain
RECURSIVE _get_qualified_type(_)
_get_qualified_type(type_node) ==
    IF HasSubType(type_node) /\ ~IsNone(type_node.sub_type)
    THEN _get_qualified_type(type_node.sub_type)
    ELSE type_node.name

\* _get_type_string.  Every type node has `name`, so the branch of lines
\* 280-301 returns and lines 304-308, which append "[]", are never reached.
RECURSIVE _get_type_string(_)
_get_type_string(type_node) ==
    IF IsNone(type_node) THEN <<"void">>
    ELSE LET base_type ==
                 IF HasSubType(type_node) /\ ~IsNone(type_node.sub_type)
                 THEN _get_qualified_type(type_node)
                 ELSE type_node.name
             arguments == IF HasArguments(type_node) THEN type_node.arguments ELSE <<>>
             \* a TypeArgument has no `name`: one without type adds nothing
             typed == SelectSeq(arguments, LAMBDA arg : ~IsNone(arg.type))
             generic_args == [i \in 1..Len(typed) |-> _get_type_string(typed[i].type)]
         IN  IF generic_args # <<>>
             THEN base_type \o <<"<">> \o Join(<<", ">>, generic_args) \o <<">">>
             ELSE base_type

----------------------------------------------------------------------------
(* Model schema extractor: field schemas *)

REQUIRED_ANNOTATIONS == {"NotNull", "NotEmpty", "NotBlank", "NonNull"}

VALIDATION_ANNOTATIONS ==
    {"NotNull", "NotEmpty", "NotBlank", "NonNull", "Size", "Min", "Max", "Range",
     "Email", "Pattern", "URL", "Positive", "PositiveOrZero", "Negative",
     "NegativeOrZero", "Past", "PastOrPresent", "Future", "FutureOrPresent", "Digits",
     "DecimalMin", "DecimalMax", "Valid"}

COLLECTION_TYPES ==
    {<<"List">>, <<"Set">>, <<"Collection">>, <<"ArrayList">>, <<"HashSet">>,
     <<"LinkedList">>}

MAP_TYPES == {<<"Map">>, <<"HashMap">>, <<"LinkedHashMap">>, <<"TreeMap">>}

\* an Optional[str] that is set
Some(v) == [some |-> v]

\* FieldSchema(name=..., type=...) with the defaults of the dataclass
FieldSchema(name, type) ==
    [name |-> name, type |-> type, required |-> FALSE, validations |-> <<>>,
     default_value |-> None, description |-> None, nested_schema |-> None,
     is_collection |-> FALSE, collection_type |-> None]

\* the "name=value" strings _format_annotation collects from the pairs
RECURSIVE FormatPairs(_)
FormatPairs(pairs) ==
    IF pairs = <<>> THEN <<>>
    ELSE (IF IsLiteral(Head(pairs).value)
          THEN <<<<Head(pairs).name, "=">> \o Head(pairs).value.value>>
          ELSE <<>>)
         \o FormatPairs(Tail(pairs))

_format_annotation(annotation) ==
    LET ann_str == <<"@", annotation.name>>
        e == annotation.element
    IN  IF ~Truthy(e) THEN ann_str
        ELSE IF IsLiteral(e) THEN ann_str \o <<"(">> \o e.value \o <<")">>
        ELSE IF IsPairList(e) /\ FormatPairs(e.pairs) # <<>>
             THEN ann_str \o <<"(">> \o Join(<<", ">>, FormatPairs(e.pairs)) \o <<")">>
        ELSE ann_str

\* variant: only NotNull marks the field required
FieldAnnotationStepNotNullOnly(field_schema, ann) ==
    LET f1 == IF ann.name = "NotNull"
              THEN [field_schema EXCEPT !.required = TRUE]
              ELSE field_schema
    IN  IF ann.name \in VALIDATION_ANNOTATIONS
        THEN [f1 EXCEPT !.validations = Append(@, _format_annotation(ann))]
        ELSE f1

\* one iteration of the loop over the annotations of a field or component
FieldAnnotationStep(field_schema, ann) ==
    LET f1 == IF ann.name \in REQUIRED_ANNOTATIONS
              THEN [field_schema EXCEPT !.required = TRUE]
              ELSE field_schema
    IN  IF ann.name \in VALIDATION_ANNOTATIONS
        THEN [f1 EXCEPT !.validations = Append(@, _format_annotation(ann))]
        ELSE f1

RECURSIVE FieldAnnotationFold(_, _)
FieldAnnotationFold(field_schema, annotations) ==
    IF annotations = <<>> THEN field_schema
    ELSE FieldAnnotationFold(FieldAnnotationStep(field_schema, Head(annotations)),
                             Tail(annotations))

\* lines 217-225: the collection shape of the declared type
WithCollection(field_schema, type) ==
    IF type.name \in COLLECTION_TYPES
    THEN LET f1 == [field_schema EXCEPT !.is_collection = TRUE,
                                        !.collection_type = Some(type.name)]
         IN  IF HasArguments(type) /\ type.arguments # <<>>
                /\ ~IsNone(type.arguments[1].type)
             THEN [f1 EXCEPT !.type = type.name \o <<"<">>
                                          \o type.arguments[1].type.name \o <<">">>]
             ELSE f1
    ELSE field_schema

\* the field schema of one declarator of a field declaration
DeclaratorSchema(field_decl, declarator) ==
    FieldAnnotationFold(
        WithCollection(FieldSchema(declarator, _get_type_string(field_decl.type)),
                       field_decl.type),
        field_decl.annotations)

_extract_field_schema(field_decl) ==
    [i \in 1..Len(field_decl.declarators) |->
        DeclaratorSchema(field_decl, field_decl.declarators[i])]

\* str.lower() of one character
Lower(c) ==
    CASE c = "A" -> "a" [] c = "B" -> "b" [] c = "C" -> "c" [] c = "D" -> "d"
      [] c = "E" -> "e" [] c = "F" -> "f" [] c = "G" -> "g" [] c = "H" -> "h"
      [] c = "I" -> "i" [] c = "J" -> "j" [] c = "K" -> "k" [] c = "L" -> "l"
      [] c = "M" -> "m" [] c = "N" -> "n" [] c = "O" -> "o" [] c = "P" -> "p"
      [] c = "Q" -> "q" [] c = "R" -> "r" [] c = "S" -> "s" [] c = "T" -> "t"
      [] c = "U" -> "u" [] c = "V" -> "v" [] c = "W" -> "w" [] c = "X" -> "x"
      [] c = "Y" -> "y" [] c = "Z" -> "z" [] OTHER -> c

\* field_name[0].lower() + field_name[1:]
LowerFirst(s) == <<Lower(Head(s))>> \o Tail(s)

\* the loop of _infer_fields_from_methods from method i on
RECURSIVE InferFieldsFrom(_, _, _, _)
InferFieldsFrom(methods, i, fields, seen_names) ==
    IF i > Len(methods) THEN fields
    ELSE LET name == methods[i].name
             getter == StartsWith(name, <<"g", "e", "t">>) /\ Len(name) > 3
             is_getter == StartsWith(name, <<"i", "s">>) /\ Len(name) > 2
             field_name == IF getter THEN LowerFirst(SubSeq(name, 4, Len(name)))
                           ELSE LowerFirst(SubSeq(name, 3, Len(name)))
             return_type == IF ~IsNone(methods[i].return_type)
                            THEN _get_type_string(methods[i].return_type)
                            ELSE <<"Object">>
         IN  IF (getter \/ is_getter) /\ field_name \notin seen_names
             THEN InferFieldsFrom(methods, i + 1,
                      Append(fields, FieldSchema(field_name,
                          IF getter THEN return_type ELSE <<"boolean">>)),
                      seen_names \cup {field_name})
             ELSE InferFieldsFrom(methods, i + 1, fields, seen_names)

_infer_fields_from_methods(class_node) ==
    InferFieldsFrom(class_node.methods, 1, <<>>, {})

ModelSchema(class_name, package_name, fields, file_path) ==
    [class_name |-> class_name, package_name |-> package_name, fields |-> fields,
     file_path |-> file_path]

\* variant: the accessors are consulted whether or not fields were found
_extract_class_schema_always_infers(class_node, package_name, file_path) ==
    ModelSchema(class_node.name, package_name,
        Flatten([i \in 1..Len(class_node.fields) |->
             _extract_field_schema(class_node.fields[i])])
        \o _infer_fields_from_methods(class_node),
        file_path)

_extract_class_schema(class_node, package_name, file_path) ==
    LET fields == Flatten([i \in 1..Len(class_node.fields) |->
                      _extract_field_schema(class_node.fields[i])])
    IN  ModelSchema(class_node.name, package_name,
            IF fields = <<>> THEN _infer_fields_from_methods(class_node) ELSE fields,
            file_path)

\* the field schema of one record component: required from the start
ComponentSchema(param) ==
    FieldAnnotationFold(
        [FieldSchema(param.name, _get_type_string(param.type)) EXCEPT !.required = TRUE],
        param.annotations)

_extract_record_schema(record_node, package_name, file_path) ==
    ModelSchema(record_node.name, package_name,
        [i \in 1..Len(record_node.parameters) |-> ComponentSchema(record_node.parameters[i])],
        file_path)

----------------------------------------------------------------------------
(* Inputs of the schema extraction: type declarations *)

\* most annotations on a field or record component of the inputs
MaxAnnotations == 2

FieldDeclaration(type, declarators, annotations) ==
    [type |-> type, declarators |-> declarators, annotations |-> annotations]

\* a record component (a FormalParameter)
Component(name, type, annotations) ==
    [name |-> name, type |-> type, annotations |-> annotations]

ClassDeclaration(name, fields, methods) ==
    [kind |-> "class", name |-> name, fields |-> fields, methods |-> methods]

RecordDeclaration(name, parameters) ==
    [kind |-> "record", name |-> name, parameters |-> parameters]

\* the annotations fields and components of the inputs carry
field_annotations ==
    {Annotation("NotNull", Absent),
     Annotation("NotBlank", Pairs(<<Pair("message", StrLit(<<"m">>))>>)),
     Annotation("NonNull", Absent),
     Annotation("NotEmpty", Absent),
     Annotation("Size", Pairs(<<Pair("min", Literal(<<"1">>)),
                                Pair("max", MemberRef(<<"MAX">>))>>)),
     Annotation("Min", Literal(<<"1">>)),
     Annotation("Valid", Absent),
     Annotation("Deprecated", Absent)}

FieldAnnotationLists(n) == UNION {[1..k -> field_annotations] : k \in 0..n}

StringType == RefType(<<"String">>)
ItemType == RefType(<<"Item">>)
Arg(type) == TypeArgument(type, None)

\* String, int, int[], String[][], List<Item>, List, Set<?>, Map<String, List<Item>>,
\* java.math.BigDecimal, a.b.List<String>, List<a.Item>, List<Map<String, Integer>>
type_nodes ==
    {StringType,
     BasicType(<<"int">>, <<>>),
     BasicType(<<"int">>, <<None>>),
     ReferenceType(<<"String">>, <<>>, None, <<None, None>>),
     ReferenceType(<<"List">>, <<Arg(ItemType)>>, None, <<>>),
     RefType(<<"List">>),
     ReferenceType(<<"Set">>, <<TypeArgument(None, Some(<<"?">>))>>, None, <<>>),
     ReferenceType(<<"Map">>,
         <<Arg(StringType),
           Arg(ReferenceType(<<"List">>, <<Arg(ItemType)>>, None, <<>>))>>, None, <<>>),
     ReferenceType(<<"java">>, <<>>,
         ReferenceType(<<"math">>, <<>>, RefType(<<"BigDecimal">>), <<>>), <<>>),
     ReferenceType(<<"a">>, <<>>,
         ReferenceType(<<"b">>, <<>>,
             ReferenceType(<<"List">>, <<Arg(StringType)>>, None, <<>>), <<>>), <<>>),
     ReferenceType(<<"List">>,
         <<Arg(ReferenceType(<<"a">>, <<>>, ItemType, <<>>))>>, None, <<>>),
     ReferenceType(<<"List">>,
         <<Arg(ReferenceType(<<"Map">>,
               <<Arg(StringType), Arg(RefType(<<"Integer">>))>>, None, <<>>))>>,
         None, <<>>)}

Accessor(name, return_type) == Method(name, <<>>, {"public"}, return_type, <<>>)

\* getName(), isActive(), getname(), get(), is(), getActive(), size(),
\* void getReady()
accessor_methods ==
    {Accessor(<<"g", "e", "t", "N", "a", "m", "e">>, StringType),
     Accessor(<<"i", "s", "A", "c", "t", "i", "v", "e">>, BasicType(<<"boolean">>, <<>>)),
     Accessor(<<"g", "e", "t", "n", "a", "m", "e">>, ItemType),
     Accessor(<<"g", "e", "t">>, StringType),
     Accessor(<<"i", "s">>, BasicType(<<"boolean">>, <<>>)),
     Accessor(<<"g", "e", "t", "A", "c", "t", "i", "v", "e">>, RefType(<<"Boolean">>)),
     Accessor(<<"s", "i", "z", "e">>, BasicType(<<"int">>, <<>>)),
     Accessor(<<"g", "e", "t", "R", "e", "a", "d", "y">>, None)}

AccessorLists(n) == UNION {[1..k -> accessor_methods] : k \in 0..n}

field_names == <<<<"amount">>, <<"note">>>>

\* class T { <annotations> String amount[, note]; }
AnnotatedFieldClasses ==
    {ClassDeclaration(<<"T">>,
         <<FieldDeclaration(StringType, SubSeq(field_names, 1, n), annotations)>>, <<>>) :
        n \in 1..2, annotations \in FieldAnnotationLists(MaxAnnotations)}

\* class T { <a1> <type> amount; <a2> String note; }
TwoFieldClasses ==
    {ClassDeclaration(<<"T">>,
         <<FieldDeclaration(type, <<field_names[1]>>, a1),
           FieldDeclaration(StringType, <<field_names[2]>>, a2)>>,
         <<Accessor(<<"g", "e", "t", "N", "a", "m", "e">>, StringType)>>) :
        type \in type_nodes, a1 \in FieldAnnotationLists(1), a2 \in FieldAnnotationLists(1)}

\* class T { <accessors> }
AccessorClasses ==
    {ClassDeclaration(<<"T">>, <<>>, methods) : methods \in AccessorLists(MaxMethods)}

\* record T(<annotations> <type> amount[, @NotNull String note])
RecordDeclarations ==
    {RecordDeclaration(<<"T">>, <<>>)}
    \cup {RecordDeclaration(<<"T">>,
              <<Component(field_names[1], StringType, annotations)>>) :
             annotations \in FieldAnnotationLists(MaxAnnotations)}
    \cup {RecordDeclaration(<<"T">>,
              <<Component(field_names[1], type, <<>>),
                Component(field_names[2], StringType, annotations)>>) :
             type \in type_nodes, annotations \in FieldAnnotationLists(1)}

TypeDeclarations ==
    AnnotatedFieldClasses \cup TwoFieldClasses \cup AccessorClasses \cup RecordDeclarations

----------------------------------------------------------------------------
(* SpecModel: the schema of one type declaration, as _parse_class_file      *)
(* extracts it once it has found the declaration                           *)

InitModel ==
    /\ entry_points = <<>>
    /\ java_files = <<>>
    /\ file_idx = 0
    /\ calls = <<>>
    /\ pc = "extract"
    /\ log = <<>>
    /\ node \in TypeDeclarations
    /\ result = None
    /\ NoExtractor

ExtractDeclaredSchema ==
    /\ pc = "extract"
    /\ result' = IF node.kind = "class"
                 THEN _extract_class_schema(node, package_a, file_path_A)
                 ELSE _extract_record_schema(node, package_a, file_path_A)
    /\ pc' = "done"
    /\ UNCHANGED <<entry_points, java_files, file_idx, calls, log, node>>
    /\ UNCHANGED schema_vars

NextModel == ExtractDeclaredSchema

SpecModel == InitModel /\ [][NextModel]_vars

\* the validation tag was formatted from an annotation of the
\* required-implying set: a tag is "@", the annotation's name, its arguments
IsRequiredTag(tag) == tag[2] \in {"NotNull", "NotEmpty", "NotBlank", "NonNull"}

HasRequiredTag(field) ==
    \E k \in 1..Len(field.validations) : IsRequiredTag(field.validations[k])

\* C10: in a returned schema a field with a required-implying validation tag
\* is required; a field of a class is required only if it has such a tag;
\* every record component is required.
C10_RequiredFromTags ==
    pc = "done" =>
        \A i \in 1..Len(result.fields) :
            /\ HasRequiredTag(result.fields[i]) => result.fields[i].required
            /\ node.kind = "class" =>
                   (result.fields[i].required => HasRequiredTag(result.fields[i]))
            /\ node.kind = "record" => result.fields[i].required

\* a class field with NotBlank(message = "m") after Size was extracted as
\* required, with both tags
C10_Witness ==
    /\ pc = "done"
    /\ node.kind = "class"
    /\ Len(result.fields) = 2
    /\ result.fields[1].required
    /\ Len(result.fields[1].validations) = 2
    /\ result.fields[1].validations[2] =
           <<"@", "NotBlank", "(", "message", "=", Q, "m", Q, ")">>
    /\ ~IsRequiredTag(result.fields[1].validations[1])

----------------------------------------------------------------------------
(* ModelSchemaExtractor: the file index, the schema cache and the lookups  *)

\* a pathlib.Path of a .java file under repo_path
JavaPath(dir, stem) == [dir |-> dir, stem |-> stem]

\* str(path)
PathString(path) == <<path.dir, "/">> \o path.stem \o <<".java">>

\* the content of a source file: whether javalang.parse.parse accepts it, its
\* package, and its class and record declarations in the order tree.filter
\* walks them (an outer type before the types nested in it)
JavaSource(parsable, package_name, types) ==
    [parsable |-> parsable, package_name |-> package_name, types |-> types]

\* the path names no file
Missing == [py |-> "missing"]

\* the text of one declaration, as far as the substring tests look at it
DeclarationText(decl) == <<decl.kind \o " ">> \o decl.name \o <<" { } ">>

\* java_file.read_text(): the text of the declarations; text javalang rejects
\* has an unbalanced brace
ReadText(source) ==
    Flatten([i \in 1..Len(source.types) |-> DeclarationText(source.types[i])])
    \o (IF source.parsable THEN <<>> ELSE <<"{">>)

\* every path the model's file changes can populate, in the order rglob
\* lists those that exist
source_paths ==
    <<JavaPath("a", <<"Order">>), JavaPath("a", <<"Shapes">>),
      JavaPath("b", <<"Customer">>)>>

\* self.repo_path.rglob("*.java")
rglob(files) == SelectSeq(source_paths, LAMBDA p : files[p] # Missing)

RECURSIVE IndexFrom(_, _)
IndexFrom(index, files) ==
    IF files = <<>> THEN index
    ELSE IndexFrom(Put(index, Head(files).stem, Head(files)), Tail(files))

\* _build_file_index: stem -> path, a later file of the same stem wins
_build_file_index(files) == IndexFrom(EmptyDict, rglob(files))

\* the loop of _find_class_file over rglob: the first file whose text has
\* "class <name>" or "record <name>"; reads counts the read_text calls
RECURSIVE TextScan(_, _, _, _)
TextScan(paths, files, class_name, reads) ==
    IF paths = <<>> THEN [path |-> None, reads |-> reads, scanned |-> TRUE]
    ELSE LET content == ReadText(files[Head(paths)])
         IN  IF \/ Contains(<<"class ">> \o class_name, content)
                \/ Contains(<<"record ">> \o class_name, content)
             THEN [path |-> Head(paths), reads |-> reads + 1, scanned |-> TRUE]
             ELSE TextScan(Tail(paths), files, class_name, reads + 1)

\* variant: the index is used only when its file's text names the class
_find_class_file_checking_text(index, files, class_name) ==
    IF /\ class_name \in DOMAIN index
       /\ files[index[class_name]] # Missing
       /\ Contains(<<"class ">> \o class_name, ReadText(files[index[class_name]]))
    THEN [path |-> index[class_name], reads |-> 0, scanned |-> FALSE]
    ELSE TextScan(rglob(files), files, class_name, 0)

\* lines 114-129
_find_class_file(index, files, class_name) ==
    IF class_name \in DOMAIN index
    THEN [path |-> index[class_name], reads |-> 0, scanned |-> FALSE]
    ELSE TextScan(rglob(files), files, class_name, 0)

\* the first declaration of the kind with the name, or None
RECURSIVE DeclarationNamed(_, _, _)
DeclarationNamed(types, kind, target_class) ==
    IF types = <<>> THEN None
    ELSE IF Head(types).kind = kind /\ Head(types).name = target_class
         THEN Head(types)
         ELSE DeclarationNamed(Tail(types), kind, target_class)

\* the body of the try block of _parse_class_file once the file is read and
\* parsed: class declarations are searched before record declarations
SchemaIn(source, file_path, target_class) ==
    LET class_node == DeclarationNamed(source.types, "class", target_class)
        record_node == DeclarationNamed(source.types, "record", target_class)
    IN  IF ~IsNone(class_node)
        THEN _extract_class_schema(class_node, source.package_name,
                                   PathString(file_path))
        ELSE IF ~IsNone(record_node)
        THEN _extract_record_schema(record_node, source.package_name,
                                    PathString(file_path))
        ELSE None

\* variant: no except clause, the error of read_text or of the parser leaves
\* the function
_parse_class_file_uncaught(files, file_path, target_class) ==
    IF files[file_path] = Missing \/ ~files[file_path].parsable
    THEN Raised
    ELSE SchemaIn(files[file_path], file_path, target_class)

\* _parse_class_file: read_text raises on a file that is gone, the parser on
\* text it rejects; the except clause turns both into None
_parse_class_file(files, file_path, target_class) ==
    IF files[file_path] = Missing \/ ~files[file_path].parsable
    THEN None
    ELSE SchemaIn(files[file_path], file_path, target_class)

\* class_name.split('.')[-1]
RECURSIVE LastSegment(_)
LastSegment(class_name) ==
    IF InList(".", class_name)
    THEN LastSegment(Tail(class_name))
    ELSE class_name

\* what a call of extract_schema leaves behind: the value returned, the
\* cache, the read_text calls made, whether rglob ran, whether it raised
Lookup(schema, cache, reads, scanned) ==
    [schema |-> schema, schemas |-> cache, reads |-> reads, scanned |-> scanned,
     raised |-> FALSE]

\* extract_schema after the cache check, lines 102-112
FindAndParse(cache, index, files, simple_name) ==
    LET found == _find_class_file(index, files, simple_name)
        schema == _parse_class_file(files, found.path, simple_name)
    IN  IF IsNone(found.path)
        THEN Lookup(None, cache, found.reads, found.scanned)
        ELSE IF schema = Raised
        THEN [Lookup(None, cache, found.reads + 1, found.scanned)
                 EXCEPT !.raised = TRUE]
        ELSE IF ~IsNone(schema)
        THEN Lookup(schema, Put(cache, simple_name, schema), found.reads + 1,
                    found.scanned)
        ELSE Lookup(None, cache, found.reads + 1, found.scanned)

\* variant: the cache is not consulted
extract_schema_uncached(cache, index, files, class_name) ==
    FindAndParse(cache, index, files, LastSegment(class_name))

\* variant: the cache is asked for the name as requested
extract_schema_by_requested_name(cache, index, files, class_name) ==
    IF class_name \in DOMAIN cache
    THEN Lookup(cache[class_name], cache, 0, FALSE)
    ELSE FindAndParse(cache, index, files, LastSegment(class_name))

\* lines 87-112
extract_schema(cache, index, files, class_name) ==
    IF LastSegment(class_name) \in DOMAIN cache
    THEN Lookup(cache[LastSegment(class_name)], cache, 0, FALSE)
    ELSE FindAndParse(cache, index, files, LastSegment(class_name))

FieldDict(f) ==
    [name |-> f.name, type |-> f.type, required |-> f.required,
     validations |-> f.validations, default_value |-> f.default_value,
     is_collection |-> f.is_collection, collection_type |-> f.collection_type]

to_dict(schema) ==
    [class_name |-> schema.class_name, package_name |-> schema.package_name,
     file_path |-> schema.file_path,
     fields |-> [i \in 1..Len(schema.fields) |-> FieldDict(schema.fields[i])]]

\* variant: the types of all parameters, whatever their annotations
AllParameterTypes(eps) ==
    UNION {{eps[i].details.parameters[j].type :
              j \in 1..Len(eps[i].details.parameters)} : i \in 1..Len(eps)}

\* the types of the RequestBody parameters of the entry points
RequestBodyTypes(eps) ==
    UNION {{eps[i].details.parameters[j].type :
              j \in {k \in 1..Len(eps[i].details.parameters) :
                       InList("RequestBody", eps[i].details.parameters[k].annotations)}} :
           i \in 1..Len(eps)}

\* the second loop of extract_schemas_for_endpoints, over the set in the
\* order the iteration yields its members
RECURSIVE ExtractEach(_, _, _, _, _, _)
ExtractEach(types, out, cache, index, files, reads) ==
    IF types = <<>>
    THEN [value |-> out, schemas |-> cache, reads |-> reads, raised |-> FALSE]
    ELSE IF Head(types) # <<>>
            /\ Head(types) \notin {<<"Object">>, <<"String">>, <<"Map">>}
    THEN LET r == extract_schema(cache, index, files, Head(types))
         IN  IF r.raised
             THEN [value |-> out, schemas |-> r.schemas,
                   reads |-> reads + r.reads, raised |-> TRUE]
             ELSE ExtractEach(Tail(types),
                      IF IsNone(r.schema) THEN out
                      ELSE Put(out, Head(types), to_dict(r.schema)),
                      r.schemas, index, files, reads + r.reads)
    ELSE ExtractEach(Tail(types), out, cache, index, files, reads)

\* the orders in which iterating a set can yield its members
Orderings(S) ==
    {order \in [1..Cardinality(S) -> S] : \A x \in S : \E i \in DOMAIN order : order[i] = x}

extract_schemas_for_endpoints(cache, index, files, order) ==
    ExtractEach(order, EmptyDict, cache, index, files, 0)

----------------------------------------------------------------------------
(* Inputs of the extractor: source files and their versions, requests *)

amount == <<"amount">>
note == <<"note">>

\* class Order { @NotNull String amount; }
OrderClass ==
    ClassDeclaration(<<"Order">>,
        <<FieldDeclaration(StringType, <<amount>>, <<Annotation("NotNull", Absent)>>)>>,
        <<>>)

\* class Order { String amount, note; }
OrderClassChanged ==
    ClassDeclaration(<<"Order">>,
        <<FieldDeclaration(StringType, <<amount, note>>, <<>>)>>, <<>>)

\* class OrderItem { int amount; }
OrderItemClass ==
    ClassDeclaration(<<"Order", "Item">>,
        <<FieldDeclaration(BasicType(<<"int">>, <<>>), <<amount>>, <<>>)>>, <<>>)

\* class Shapes { record Item(String note) {} }
ShapesClass == ClassDeclaration(<<"Shapes">>, <<>>, <<>>)
ItemRecord == RecordDeclaration(<<"Item">>, <<Component(note, StringType, <<>>)>>)

\* class Customer { @Valid Item note; }
CustomerClass ==
    ClassDeclaration(<<"Customer">>,
        <<FieldDeclaration(ItemType, <<note>>, <<Annotation("Valid", Absent)>>)>>, <<>>)

\* the contents a write can give each path
SourceVersions(path) ==
    IF path = source_paths[1]
    THEN {JavaSource(TRUE, <<"a">>, <<OrderClass>>),
          JavaSource(TRUE, <<"a">>, <<OrderClassChanged, OrderItemClass>>)}
    ELSE IF path = source_paths[2]
    THEN {JavaSource(TRUE, <<"a">>, <<ShapesClass, ItemRecord>>)}
    ELSE {JavaSource(FALSE, <<"b">>, <<CustomerClass>>),
          JavaSource(TRUE, <<"b">>, <<CustomerClass>>)}

PathSet == {source_paths[i] : i \in 1..Len(source_paths)}

\* the paths the model writes and deletes; a/Shapes.java stays as it is
changing_paths == {source_paths[1], source_paths[3]}

\* the source trees an extractor is constructed on: a/Order.java and
\* a/Shapes.java, with or without a b/Customer.java the parser rejects
SourceRepos ==
    {[p \in PathSet |->
         IF p = source_paths[1] THEN JavaSource(TRUE, <<"a">>, <<OrderClass>>)
         ELSE IF p = source_paths[2]
         THEN JavaSource(TRUE, <<"a">>, <<ShapesClass, ItemRecord>>)
         ELSE customer] :
        customer \in {JavaSource(FALSE, <<"b">>, <<CustomerClass>>), Missing}}

\* the class names extract_schema is asked for
request_names ==
    {<<"Order">>, <<"a", ".", "Order">>, <<"Item">>, <<"Customer">>, <<"Missing">>}

Parameter(name, type, annotations) ==
    [name |-> name, type |-> type, annotations |-> annotations]

Body(type) == Parameter(<<"body">>, type, <<"RequestBody">>)

\* an entry point as a dict
EndpointDict(parameters) ==
    [type |-> "REST_ENDPOINT", details |-> [parameters |-> parameters]]

endpoint_lists ==
    {<<EndpointDict(<<Body(<<"a", ".", "Order">>), Body(<<"Object">>),
                      Parameter(<<"id">>, <<"Item">>, <<"PathVariable">>)>>)>>,
     <<EndpointDict(<<Body(<<>>), Body(<<"Missing">>)>>)>>,
     <<EndpointDict(<<Body(<<"Customer">>)>>),
       EndpointDict(<<Body(<<"Order">>), Body(<<"Item">>)>>)>>}

----------------------------------------------------------------------------
(* SpecSchema: one ModelSchemaExtractor, its lookups, and the files        *)
(* changing under it                                                      *)

\* no request for the name yet
Unset == [py |-> "unset"]

\* no direct call of extract_schema to tell of
NoCall == [repeated |-> FALSE, reads |-> 0, scanned |-> FALSE]

\* the names whose first result the history keeps
watched_names == request_names \ {<<"Item">>}

InitSchema ==
    /\ entry_points = <<>>
    /\ java_files = <<>>
    /\ file_idx = 0
    /\ calls = <<>>
    /\ log = <<>>
    /\ pc = "constructed"
    /\ node = None
    /\ result = None
    /\ repo \in SourceRepos
    /\ schemas = EmptyDict
    /\ _java_files_cache = _build_file_index(repo)
    /\ first_result \in {[class_name |-> n, result |-> Unset] : n \in watched_names}
    /\ last_call = NoCall

\* a call of extract_schema
ExtractSchema ==
    \E class_name \in request_names :
        LET r == extract_schema(schemas, _java_files_cache, repo, class_name)
            watched == class_name = first_result.class_name
        IN  /\ node' = class_name
            /\ result' = IF r.raised THEN Raised ELSE r.schema
            /\ pc' = IF r.raised THEN "raised" ELSE "extracted"
            /\ schemas' = r.schemas
            /\ last_call' = [repeated |-> watched /\ first_result.result # Unset,
                             reads |-> r.reads, scanned |-> r.scanned]
            /\ first_result' = IF watched /\ first_result.result = Unset /\ ~r.raised
                               THEN [first_result EXCEPT !.result = r.schema]
                               ELSE first_result
            /\ UNCHANGED <<entry_points, java_files, file_idx, calls, log, repo,
                           _java_files_cache>>

\* a call of extract_schemas_for_endpoints
ExtractSchemasForEndpoints ==
    \E eps \in endpoint_lists :
        \E order \in Orderings(RequestBodyTypes(eps)) :
            LET r == extract_schemas_for_endpoints(schemas, _java_files_cache, repo, order)
                simple_name == LastSegment(first_result.class_name)
            IN  /\ node' = eps
                /\ result' = IF r.raised THEN Raised ELSE r.value
                /\ pc' = IF r.raised THEN "raised" ELSE "resolved"
                /\ schemas' = r.schemas
                /\ first_result' =
                       IF /\ first_result.class_name \in RequestBodyTypes(eps)
                          /\ first_result.result = Unset
                          /\ ~r.raised
                       THEN [first_result EXCEPT !.result =
                                IF simple_name \in DOMAIN r.schemas
                                THEN r.schemas[simple_name] ELSE None]
                       ELSE first_result
                /\ UNCHANGED <<entry_points, java_files, file_idx, calls, log, repo,
                               _java_files_cache, last_call>>

\* somebody writes a file of the tree; the result of the last call is history
ModifyFile ==
    \E path \in changing_paths :
        \E source \in SourceVersions(path) :
            /\ repo[path] # source
            /\ repo' = [repo EXCEPT ![path] = source]
            /\ pc' = "changed"
            /\ node' = None
            /\ result' = None
            /\ last_call' = NoCall
            /\ UNCHANGED <<entry_points, java_files, file_idx, calls, log, schemas,
                           _java_files_cache, first_result>>

\* somebody deletes a file of the tree
DeleteFile ==
    \E path \in changing_paths :
        /\ repo[path] # Missing
        /\ repo' = [repo EXCEPT ![path] = Missing]
        /\ pc' = "changed"
        /\ node' = None
        /\ result' = None
        /\ last_call' = NoCall
        /\ UNCHANGED <<entry_points, java_files, file_idx, calls, log, schemas,
                       _java_files_cache, first_result>>

NextSchema == ExtractSchema \/ ExtractSchemasForEndpoints \/ ModifyFile \/ DeleteFile

SpecSchema == InitSchema /\ [][NextSchema]_vars

\* C6: once extract_schema has returned a schema for a name, every later
\* extract_schema for the name returns a schema with the same field list,
\* whatever was looked up, written or deleted in between.
C6_SameFieldsOnceReturned ==
    (/\ pc = "extracted"
     /\ node = first_result.class_name
     /\ first_result.result \notin {Unset, None})
        => /\ ~IsNone(result)
           /\ result.fields = first_result.result.fields

\* Order was requested again after a/Order.java was deleted, and the schema
\* with the field amount came back
C6_Witness ==
    /\ pc = "extracted"
    /\ node = <<"Order">>
    /\ node = first_result.class_name
    /\ last_call.repeated
    /\ repo[source_paths[1]] = Missing
    /\ ~IsNone(result)
    /\ Len(result.fields) = 1
    /\ result.fields[1].name = amount

\* C7: a repeated extract_schema request for a name, found or not the first
\* time, returns the result of the first request and reads and scans no file.
C7_RepeatedRequestFromCache ==
    (pc = "extracted" /\ last_call.repeated)
        => /\ result = first_result.result
           /\ last_call.reads = 0
           /\ ~last_call.scanned


\* the tree with every file's syntax errors repaired
Repaired(files) ==
    [p \in DOMAIN files |->
        IF files[p] = Missing THEN Missing ELSE [files[p] EXCEPT !.parsable = TRUE]]

\* the types extract_schemas_for_endpoints looks up for the entry points
LookedUp(eps) ==
    RequestBodyTypes(eps) \ {<<>>, <<"Object">>, <<"String">>, <<"Map">>}

\* the lookup of the type, not in the cache, finds a file the parser rejects
ParseFails(cache, index, files, type_name) ==
    LET found == _find_class_file(index, files, LastSegment(type_name))
    IN  /\ LastSegment(type_name) \notin DOMAIN cache
        /\ ~IsNone(found.path)
        /\ files[found.path] # Missing
        /\ ~files[found.path].parsable

\* C9: no call of the extractor raises; when extract_schemas_for_endpoints
\* meets a file the parser rejects, the type looked up in it is neither in
\* the result nor in the cache afterwards, and every other type looked up is
\* in the result exactly when its lookup in the repaired tree finds a
\* schema, then with that schema.
C9_ParseFailureIsolated ==
    [][/\ pc' # "raised"
       /\ pc' = "resolved" =>
            \A t \in LookedUp(node') :
                IF ParseFails(schemas, _java_files_cache, repo, t)
                THEN /\ t \notin DOMAIN result'
                     /\ LastSegment(t) \notin DOMAIN schemas'
                ELSE LET alone == extract_schema(schemas, _java_files_cache,
                                                 Repaired(repo), t).schema
                     IN  IF IsNone(alone) THEN t \notin DOMAIN result'
                         ELSE /\ t \in DOMAIN result'
                              /\ result'[t] = to_dict(alone)
                              /\ LastSegment(t) \in DOMAIN schemas']_vars

\* Customer, Order and Item were looked up while the parser rejects
\* b/Customer.java: Order and Item are in the result, Customer is in neither
\* the result nor the cache
C9_Witness ==
    /\ pc = "resolved"
    /\ LookedUp(node) = {<<"Customer">>, <<"Order">>, <<"Item">>}
    /\ repo[source_paths[3]] # Missing
    /\ ~repo[source_paths[3]].parsable
    /\ DOMAIN result = {<<"Order">>, <<"Item">>}
    /\ <<"Customer">> \notin DOMAIN schemas
    /\ result[<<"Item">>].fields[1].required

----------------------------------------------------------------------------
(* SpecParams: _extract_parameters on the parameters of one method *)

\* most annotations on one parameter of the inputs
MaxMarkers == 3

FormalParameter(name, type, annotations) ==
    [name |-> name, type |-> type, annotations |-> annotations]

\* the annotations the parameters of the inputs carry
binding_markers ==
    {Annotation("RequestParam", Absent),
     Annotation("RequestParam",
         Pairs(<<Pair("name", StrLit(<<"q">>)), Pair("required", Literal(<<"false">>))>>)),
     Annotation("RequestParam",
         Pairs(<<Pair("required", MemberRef(<<"true">>)),
                 Pair("defaultValue", StrLit(<<"d">>))>>)),
     Annotation("PathVariable", StrLit(<<"id">>)),
     Annotation("RequestBody", Absent),
     Annotation("RequestHeader", Pairs(<<Pair("required", Literal(<<"false">>))>>)),
     Annotation("RequestHeader", StrLit(<<"h">>)),
     Annotation("Valid", Absent)}

MarkerLists(n) == UNION {[1..k -> binding_markers] : k \in 0..n}

\* void m(<markers> String p, @PathVariable Long id)
MethodsWithParameters ==
    {Method(<<"m">>, <<>>, {"public"}, None,
         <<FormalParameter(<<"p">>, RefType(<<"String">>), markers),
           FormalParameter(<<"id">>, RefType(<<"Long">>),
               <<Annotation("PathVariable", Absent)>>)>>) :
        markers \in MarkerLists(MaxMarkers)}

InitParams ==
    /\ entry_points = <<>>
    /\ java_files = <<>>
    /\ file_idx = 0
    /\ calls = <<>>
    /\ pc = "parameters"
    /\ log = <<>>
    /\ node \in MethodsWithParameters
    /\ result = None
    /\ NoExtractor

ExtractParameters ==
    /\ pc = "parameters"
    /\ result' = _extract_parameters(node)
    /\ pc' = "done"
    /\ UNCHANGED <<entry_points, java_files, file_idx, calls, log, node>>
    /\ UNCHANGED schema_vars

NextParams == ExtractParameters

SpecParams == InitParams /\ [][NextParams]_vars

\* the dict has the key with the value
Has(dict, key, value) == key \in DOMAIN dict /\ dict[key] = value

\* C11: in every parameter record _extract_parameters produces, param_type
\* "path" or "body" implies required = true, whatever binding markers the
\* parameter carries and in whatever order.
C11_PathAndBodyRequired ==
    pc = "done" =>
        \A i \in 1..Len(result) :
            (Has(result[i], "param_type", "path") \/ Has(result[i], "param_type", "body"))
                => Has(result[i], "required", TRUE)

\* a parameter with RequestParam(name = "q", required = false) before
\* PathVariable came out path-bound, required, with the alias q
C11_Witness ==
    /\ pc = "done"
    /\ Len(node.parameters[1].annotations) = 2
    /\ node.parameters[1].annotations[1].name = "RequestParam"
    /\ node.parameters[1].annotations[2].name = "PathVariable"
    /\ Has(result[1], "alias", <<"q">>)
    /\ Has(result[1], "param_type", "path")
    /\ Has(result[1], "required", TRUE)


\* the field name an accessor stands for by its name: getX and isX give x
\* with its first letter lowercased; None for any other method
DerivedName(method) ==
    IF StartsWith(method.name, <<"g", "e", "t">>) /\ Len(method.name) > 3
    THEN Some(LowerFirst(SubSeq(method.name, 4, Len(method.name))))
    ELSE IF StartsWith(method.name, <<"i", "s">>) /\ Len(method.name) > 2
    THEN Some(LowerFirst(SubSeq(method.name, 3, Len(method.name))))
    ELSE None

\* the positions of the methods that are the first to stand for their name,
\* in declaration order
FirstAccessors(methods) ==
    SelectSeq([i \in 1..Len(methods) |-> i],
              LAMBDA i : /\ DerivedName(methods[i]) # None
                         /\ \A j \in 1..(i - 1) :
                                DerivedName(methods[j]) # DerivedName(methods[i]))

\* the declarator names of the field declarations, in order
DeclaredNames(fields) ==
    Flatten([i \in 1..Len(fields) |-> fields[i].declarators])

IsBodyType(eps, type_name) ==
    \E i \in 1..Len(eps) :
        \E j \in 1..Len(eps[i].details.parameters) :
            /\ eps[i].details.parameters[j].type = type_name
            /\ InList("RequestBody", eps[i].details.parameters[j].annotations)

placeholder_names == {<<"Object">>, <<"String">>, <<"Map">>}

\* C13 as stated: every key of the mapping extract_schemas_for_endpoints
\* returns is the type of a RequestBody parameter of the entry points, is
\* none of Object, String, Map, and maps to a schema whose class name equals
\* the key.
C13_KeysAreBodyTypesNamedAsKey ==
    pc = "resolved" =>
        \A key \in DOMAIN result :
            /\ IsBodyType(node, key)
            /\ key \notin placeholder_names
            /\ result[key].class_name = key

\* C13 amended: every key of the mapping extract_schemas_for_endpoints
\* returns is the type of a RequestBody parameter of the entry points, is
\* none of Object, String, Map, and maps to a schema whose class name is the
\* last dotted segment of the key.
C13_KeysAreBodyTypes ==
    pc = "resolved" =>
        \A key \in DOMAIN result :
            /\ IsBodyType(node, key)
            /\ key \notin placeholder_names
            /\ result[key].class_name = LastSegment(key)

\* the entry point with the body types a.Order and Object and the path
\* variable type Item gave exactly the key a.Order, with the schema of the
\* class Order, though Item is in the cache
C13_Witness ==
    /\ pc = "resolved"
    /\ IsBodyType(node, <<"Object">>)
    /\ ~IsBodyType(node, <<"Item">>)
    /\ <<"Item">> \in DOMAIN schemas
    /\ DOMAIN result = {<<"a", ".", "Order">>}
    /\ result[<<"a", ".", "Order">>].class_name = <<"Order">>


\* the verb a mapping annotation names: the verb of its name, and for
\* RequestMapping the member its method attribute refers to, GET without one
NamedVerb(annotation) ==
    CASE annotation.name = "GetMapping" -> "GET"
      [] annotation.name = "PostMapping" -> "POST"
      [] annotation.name = "PutMapping" -> "PUT"
      [] annotation.name = "DeleteMapping" -> "DELETE"
      [] annotation.name = "PatchMapping" -> "PATCH"
      [] annotation.name = "RequestMapping" ->
             IF IsPairList(annotation.element)
                /\ \E k \in 1..Len(annotation.element.pairs) :
                       annotation.element.pairs[k].name = "method"
             THEN LET k == CHOOSE k \in 1..Len(annotation.element.pairs) :
                               annotation.element.pairs[k].name = "method"
                  IN  annotation.element.pairs[k].value.member[1]
             ELSE "GET"

\* C14: the HTTP verb of a controller entry point is the verb its method's
\* mapping annotation names: that of a verb-specific annotation, and for
\* RequestMapping the value of its method attribute, GET only without one.
C14_VerbFromMapping ==
    (pc = "done" /\ node \in VerbClassNodes) =>
        /\ Len(entry_points) = 1
        /\ entry_points[1].details.http_method =
               NamedVerb(node.methods[1].annotations[1])


\* the list xs is the beginning of the list ys
IsPrefix(xs, ys) == Len(xs) <= Len(ys) /\ SubSeq(ys, 1, Len(xs)) = xs

\* C15: every step of parse_repository leaves the entry-point list an
\* extension of what it was: no entry is removed, moved or changed.
C15_EntryPointsAppendOnly == [][IsPrefix(entry_points, entry_points')]_vars

\* two files are done, one of them failed, and the list holds entries of a
\* file that came before the failure
C15_Witness ==
    /\ pc = "scanning"
    /\ file_idx = 3
    /\ java_files[2] = BrokenFile
    /\ Len(log) = 1
    /\ Len(EntriesOfFile(entry_points, java_files[1].path)) = 2
    /\ Len(EntriesOfFile(entry_points, java_files[3].path)) = 1


\* C16: under every sequence of extract_schema and
\* extract_schemas_for_endpoints calls, a simple name in the cache keeps its
\* schema, and a name enters the cache only with a schema of that class name.
C16_CacheWriteOnce ==
    [][/\ \A key \in DOMAIN schemas :
              key \in DOMAIN schemas' /\ schemas'[key] = schemas[key]
       /\ \A key \in (DOMAIN schemas') \ (DOMAIN schemas) :
              schemas'[key].class_name = key]_vars

\* Order was looked up again after a/Order.java was rewritten with two
\* fields: the cache still has the schema with one field
C16_Witness ==
    /\ pc = "resolved"
    /\ <<"Order">> \in DOMAIN result
    /\ repo[source_paths[1]] = JavaSource(TRUE, <<"a">>, <<OrderClassChanged, OrderItemClass>>)
    /\ Len(schemas[<<"Order">>].fields) = 1
    /\ <<"Customer">> \in DOMAIN schemas


----------------------------------------------------------------------------
(* generate_report: the summary of the accumulated entry points *)

\* variant: a kind already in by_type is not counted again
ReportStepCountingOnce(report, ep) ==
    LET by_type == IF ep.type \notin DOMAIN report.by_type
                   THEN Put(report.by_type, ep.type, 1)
                   ELSE report.by_type
    IN  [report EXCEPT
            !.by_type = by_type,
            !.entry_points = Append(@, [type |-> ep.type,
                                        class |-> ep.class_name,
                                        method |-> ep.method_name,
                                        file |-> ep.file_path,
                                        details |-> ep.details])]

\* lines 599-609: the body of the loop for one entry point
ReportStep(report, ep) ==
    LET started == IF ep.type \notin DOMAIN report.by_type
                   THEN Put(report.by_type, ep.type, 0)
                   ELSE report.by_type
        by_type == [started EXCEPT ![ep.type] = @ + 1]
    IN  [report EXCEPT
            !.by_type = by_type,
            !.entry_points = Append(@, [type |-> ep.type,
                                        class |-> ep.class_name,
                                        method |-> ep.method_name,
                                        file |-> ep.file_path,
                                        details |-> ep.details])]

RECURSIVE ReportFold(_, _, _)
\* lines 598-609: the loop over self.entry_points
ReportFold(eps, i, report) ==
    IF i > Len(eps) THEN report
    ELSE ReportFold(eps, i + 1, ReportStep(report, eps[i]))

\* lines 589-611
generate_report(eps) ==
    ReportFold(eps, 1, [total_entry_points |-> Len(eps),
                        by_type |-> EmptyDict,
                        entry_points |-> <<>>])

\* generate_report, called before or after parse_repository
GenerateReport ==
    /\ pc \in {"idle", "returned"}
    /\ result' = generate_report(entry_points)
    /\ pc' = "reported"
    /\ UNCHANGED <<entry_points, java_files, file_idx, calls, log, node>>
    /\ UNCHANGED schema_vars

NextReport == ListFiles \/ ParseFile \/ ReturnEntryPoints \/ GenerateReport

SpecReport == Init /\ [][NextReport]_vars

RECURSIVE SumOfCounts(_)
\* the sum of the values of a dict of counts
SumOfCounts(d) ==
    IF DOMAIN d = {} THEN 0
    ELSE LET k == CHOOSE x \in DOMAIN d : TRUE
         IN  d[k] + SumOfCounts([x \in (DOMAIN d) \ {k} |-> d[x]])

\* C17: the report of an entry-point list has total_entry_points equal to the
\* length of the list and to the sum of the by_type counts, by_type has a key
\* exactly for the kinds that occur, with the number of entries of that kind,
\* and the flat list has one record per entry, in the order of the list.
C17_ReportCountsAndOrder ==
    pc = "reported" =>
        /\ result.total_entry_points = Len(entry_points)
        /\ result.total_entry_points = SumOfCounts(result.by_type)
        /\ DOMAIN result.by_type = {entry_points[i].type : i \in 1..Len(entry_points)}
        /\ \A k \in DOMAIN result.by_type :
              result.by_type[k] =
                  Cardinality({i \in 1..Len(entry_points) : entry_points[i].type = k})
        /\ Len(result.entry_points) = Len(entry_points)
        /\ \A i \in 1..Len(entry_points) :
              /\ result.entry_points[i].type = entry_points[i].type
              /\ result.entry_points[i].class = entry_points[i].class_name
              /\ result.entry_points[i].method = entry_points[i].method_name
              /\ result.entry_points[i].file = entry_points[i].file_path
              /\ result.entry_points[i].details = entry_points[i].details

\* a report of entry points of several kinds, one kind occurring twice with
\* another kind between its two entries
C17_Witness ==
    /\ pc = "reported"
    /\ Cardinality(DOMAIN result.by_type) >= 3
    /\ \E i, j, k \in 1..Len(entry_points) :
          /\ i < j /\ j < k
          /\ entry_points[i].type = entry_points[k].type
          /\ entry_points[j].type # entry_points[i].type


----------------------------------------------------------------------------
(* PromptBuilder: the application types of an analysis and the primary one *)

\* d.get(k, default)
Get(d, k, default) == IF k \in DOMAIN d THEN d[k] ELSE default

\* s.lower()
LowerStr(s) == [i \in 1..Len(s) |-> Lower(s[i])]

\* analysis['phase_1_ast_analysis']['entry_points_by_type'].get(kind, []),
\* every level read with .get and an empty default
EntriesOfKind(analysis, kind) ==
    Get(Get(Get(analysis, "phase_1_ast_analysis", EmptyDict),
            "entry_points_by_type", EmptyDict), kind, <<>>)

\* lines 425-427
_has_rest_endpoints(analysis) == Len(EntriesOfKind(analysis, "REST")) > 0

\* lines 437-439
_has_kafka(analysis) == Len(EntriesOfKind(analysis, "MESSAGE_CONSUMER")) > 0

\* lines 445-447
_has_scheduled(analysis) == Len(EntriesOfKind(analysis, "SCHEDULED_TASK")) > 0

\* lines 462-465: a dependency is a dict with an artifactId or any other value,
\* read through str
ArtifactOf(dep) ==
    IF dep.isdict THEN Get(dep.items, "artifactId", <<>>) ELSE dep.str

\* lines 449-469
_has_reactive(analysis) ==
    LET rest_endpoints == EntriesOfKind(analysis, "REST")
        build_config == Get(Get(analysis, "phase_2_configuration", EmptyDict),
                            "build_config", EmptyDict)
        dependencies == Get(build_config, "dependencies", <<>>)
    IN  \/ \E i \in 1..Len(rest_endpoints) :
              LET return_type == Get(Get(rest_endpoints[i], "details", EmptyDict),
                                     "return_type", <<>>)
              IN  \/ Contains(<<"M", "o", "n", "o", "<">>, return_type)
                  \/ Contains(<<"F", "l", "u", "x", "<">>, return_type)
        \/ \E i \in 1..Len(dependencies) :
              LET artifact == ArtifactOf(dependencies[i])
              IN  \/ Contains(<<"w", "e", "b", "f", "l", "u", "x">>, LowerStr(artifact))
                  \/ Contains(<<"r", "e", "a", "c", "t", "o", "r">>, LowerStr(artifact))

\* lines 483-485
_has_batch(analysis) == Len(EntriesOfKind(analysis, "BATCH_JOB")) > 0

\* lines 487-490
_has_cli(analysis) ==
    \/ Len(EntriesOfKind(analysis, "CLI")) > 0
    \/ Len(EntriesOfKind(analysis, "MAIN_APPLICATION")) > 0

\* lines 23-37: the keys of self.prompt_registry in insertion order
registry_types ==
    <<"REST_API", "GRAPHQL", "GRPC", "KAFKA", "JMS", "SCHEDULED", "REACTIVE",
      "UI", "WEBSOCKET", "SOAP", "BATCH", "CLI", "ESB">>

\* lines 23-37: the detector registered for a type; the detectors of lines
\* 429-435, 441-443, 471-481 and 492-494 return False
Detector(test_type, analysis) ==
    CASE test_type = "REST_API" -> _has_rest_endpoints(analysis)
      [] test_type = "KAFKA" -> _has_kafka(analysis)
      [] test_type = "SCHEDULED" -> _has_scheduled(analysis)
      [] test_type = "REACTIVE" -> _has_reactive(analysis)
      [] test_type = "BATCH" -> _has_batch(analysis)
      [] test_type = "CLI" -> _has_cli(analysis)
      [] OTHER -> FALSE

\* lines 67-75
_detect_application_types(analysis_json) ==
    SelectSeq(registry_types, LAMBDA test_type : Detector(test_type, analysis_json))

\* variant: message consumers are preferred to everything else
priority_order_kafka_first ==
    <<"KAFKA", "REST_API", "GRAPHQL", "GRPC", "REACTIVE",
      "JMS", "SCHEDULED", "WEBSOCKET", "SOAP", "BATCH", "UI", "CLI", "ESB">>

\* lines 79-82
priority_order ==
    <<"REST_API", "GRAPHQL", "GRPC", "KAFKA", "REACTIVE",
      "JMS", "SCHEDULED", "WEBSOCKET", "SOAP", "BATCH", "UI", "CLI", "ESB">>

\* lines 77-88
_select_primary_type(detected_types) ==
    LET hits == SelectSeq(priority_order, LAMBDA ptype : InList(ptype, detected_types))
    IN  IF hits # <<>> THEN Head(hits) ELSE "CLI"

MaxRestEntries == 2

\* REST entry points as the analysis document lists them: with a plain, a
\* Mono or a Flux return type, or without details
rest_entries ==
    {[details |-> [return_type |-> <<"S">>]],
     [details |-> [return_type |-> <<"M", "o", "n", "o", "<", "T", ">">>]],
     [details |-> [return_type |-> <<"F", "l", "u", "x", "<", "T", ">">>]],
     [method |-> <<"m">>]}

KeyAbsent == [present |-> FALSE, entries |-> <<>>]

KeyWith(entries) == [present |-> TRUE, entries |-> entries]

\* what entry_points_by_type can hold for each kind: no key, an empty list,
\* or a list of entries
kind_options(kind) ==
    IF kind = "REST"
    THEN {KeyAbsent} \cup
         UNION {{KeyWith(l) : l \in [1..n -> rest_entries]} : n \in 0..MaxRestEntries}
    ELSE IF kind \in {"MESSAGE_CONSUMER", "SCHEDULED_TASK"}
    THEN {KeyAbsent, KeyWith(<<>>), KeyWith(<<[method |-> <<"m">>]>>)}
    ELSE {KeyAbsent, KeyWith(<<[method |-> <<"m">>]>>)}

entry_kinds ==
    {"REST", "MESSAGE_CONSUMER", "SCHEDULED_TASK", "BATCH_JOB", "CLI", "MAIN_APPLICATION"}

\* the dict that has the key of a kind when the option of the kind has it
ByTypeDict(c) == [kind \in {k \in entry_kinds : c[k].present} |-> c[kind].entries]

ByTypeDicts ==
    {ByTypeDict([REST |-> r, MESSAGE_CONSUMER |-> m, SCHEDULED_TASK |-> s,
                 BATCH_JOB |-> b, CLI |-> c, MAIN_APPLICATION |-> a]) :
        r \in kind_options("REST"), m \in kind_options("MESSAGE_CONSUMER"),
        s \in kind_options("SCHEDULED_TASK"), b \in kind_options("BATCH_JOB"),
        c \in kind_options("CLI"), a \in kind_options("MAIN_APPLICATION")}

DictDependency(items) == [isdict |-> TRUE, items |-> items, str |-> <<>>]

StrDependency(s) == [isdict |-> FALSE, items |-> EmptyDict, str |-> s]

\* the dependency lists of build_config
dependency_lists ==
    {<<>>,
     <<DictDependency([artifactId |-> <<"w", "e", "b">>])>>,
     <<DictDependency([groupId |-> <<"o", "r", "g">>]),
       DictDependency([artifactId |-> <<"W", "e", "b", "F", "l", "u", "x">>])>>,
     <<StrDependency(<<"r", "e", "a", "c", "t", "o", "r", "-", "c", "o", "r", "e">>)>>}

\* the analysis documents build_prompt is given
Analyses ==
    {[phase_1_ast_analysis |-> [entry_points_by_type |-> by_type],
      phase_2_configuration |-> [build_config |-> [dependencies |-> deps]]] :
        by_type \in ByTypeDicts, deps \in dependency_lists}
    \cup {[phase_1_ast_analysis |-> [entry_points_by_type |-> by_type]] :
            by_type \in ByTypeDicts}
    \cup {[phase_2_configuration |-> [build_config |-> [dependencies |-> deps]]] :
            deps \in dependency_lists}

InitPrompt ==
    /\ entry_points = <<>>
    /\ java_files = <<>>
    /\ file_idx = 0
    /\ calls = <<>>
    /\ pc = "build_prompt"
    /\ log = <<>>
    /\ node \in Analyses
    /\ result = None
    /\ NoExtractor

\* build_prompt, line 50
DetectApplicationTypes ==
    /\ pc = "build_prompt"
    /\ result' = [detected_types |-> _detect_application_types(node),
                  primary_type |-> <<>>]
    /\ pc' = "detected"
    /\ UNCHANGED <<entry_points, java_files, file_idx, calls, log, node>>
    /\ UNCHANGED schema_vars

\* build_prompt, line 53
SelectPrimaryType ==
    /\ pc = "detected"
    /\ result' = [result EXCEPT
                     !.primary_type = _select_primary_type(result.detected_types)]
    /\ pc' = "selected"
    /\ UNCHANGED <<entry_points, java_files, file_idx, calls, log, node>>
    /\ UNCHANGED schema_vars

NextPrompt == DetectApplicationTypes \/ SelectPrimaryType

SpecPrompt == InitPrompt /\ [][NextPrompt]_vars

\* the position of a type in the priority order
Rank(test_type) ==
    CHOOSE i \in 1..Len(priority_order) : priority_order[i] = test_type

\* C18: the primary type is the detected type that comes earliest in the
\* priority order; it is REST_API whenever the analysis lists a REST entry
\* point, whatever else is detected; it is CLI when nothing is detected.
C18_PrimaryTypeByPriority ==
    pc = "selected" =>
        /\ result.detected_types # <<>> =>
              /\ InList(result.primary_type, result.detected_types)
              /\ \A i \in 1..Len(result.detected_types) :
                    Rank(result.primary_type) <= Rank(result.detected_types[i])
        /\ Len(EntriesOfKind(node, "REST")) >= 1 => result.primary_type = "REST_API"
        /\ result.detected_types = <<>> => result.primary_type = "CLI"

\* REST entry points next to message consumers, scheduled tasks and a
\* reactive dependency: REST_API was selected
C18_Witness ==
    /\ pc = "selected"
    /\ result.primary_type = "REST_API"
    /\ InList("KAFKA", result.detected_types)
    /\ InList("SCHEDULED", result.detected_types)
    /\ InList("REACTIVE", result.detected_types)

\* nothing is detected and CLI was selected
C18_WitnessFallback ==
    /\ pc = "selected"
    /\ result.detected_types = <<>>
    /\ result.primary_type = "CLI"


----------------------------------------------------------------------------
(* The annotation readers on every payload shape *)

MaxShapes == 2

orders == StrLit(<<"orders">>)
payments == StrLit(<<"payments">>)

\* the payloads an annotation can carry
payload_shapes ==
    {Absent,
     orders,
     ArrayValue(<<orders, payments>>),
     ArrayValue(<<>>),
     ArrayValue(<<NestedAnnotation("topics", Absent)>>),
     Pairs(<<Pair("topics", orders)>>),
     Pairs(<<Pair("value", payments), Pair("topics", ArrayValue(<<orders, payments>>))>>),
     Pairs(<<Pair("value", payments)>>),
     Pairs(<<Pair("topics", MemberRef(<<"T">>))>>),
     MemberRef(<<"T">>),
     NestedAnnotation("Inner", orders)}

read_names == {"KafkaListener", "RequestMapping", "Scheduled"}

\* the annotation lists of the node that is read
AnnotationLists ==
    UNION {[1..n -> {Annotation(name, e) : name \in read_names, e \in payload_shapes}] :
           n \in 1..MaxShapes}

InitAnnotation ==
    /\ entry_points = <<>>
    /\ java_files = <<>>
    /\ file_idx = 0
    /\ calls = <<>>
    /\ pc = "annotated"
    /\ log = <<>>
    /\ node \in {[annotations |-> l] : l \in AnnotationLists}
    /\ result = None
    /\ NoExtractor

\* line 239: _extract_annotation_param(method, 'KafkaListener', 'topics')
ExtractAnnotationParam ==
    /\ pc = "annotated"
    /\ result' = _extract_annotation_param(node, "KafkaListener", "topics")
    /\ pc' = "param"
    /\ UNCHANGED <<entry_points, java_files, file_idx, calls, log, node>>
    /\ UNCHANGED schema_vars

\* lines 320-353
ExtractRequestMapping ==
    /\ pc = "annotated"
    /\ result' = Returned(_extract_request_mapping(node))
    /\ pc' = "mapping"
    /\ UNCHANGED <<entry_points, java_files, file_idx, calls, log, node>>
    /\ UNCHANGED schema_vars

\* lines 379-387
ExtractMethodPath ==
    /\ pc = "annotated"
    /\ result' = Returned(_extract_method_path(node))
    /\ pc' = "path"
    /\ UNCHANGED <<entry_points, java_files, file_idx, calls, log, node>>
    /\ UNCHANGED schema_vars

\* lines 563-587
ExtractScheduleInfo ==
    /\ pc = "annotated"
    /\ result' = Returned(_extract_schedule_info(node))
    /\ pc' = "schedule"
    /\ UNCHANGED <<entry_points, java_files, file_idx, calls, log, node>>
    /\ UNCHANGED schema_vars

NextAnnotation ==
    \/ ExtractAnnotationParam
    \/ ExtractRequestMapping
    \/ ExtractMethodPath
    \/ ExtractScheduleInfo

SpecAnnotation == InitAnnotation /\ [][NextAnnotation]_vars

\* the payload of the first KafkaListener annotation of the node
FirstListenerPayload ==
    LET named == {i \in 1..Len(node.annotations) : node.annotations[i].name = "KafkaListener"}
    IN  IF named = {} THEN Absent
        ELSE node.annotations[CHOOSE i \in named : \A j \in named : i <= j].element

\* the literals of a list of values, without their quotes
Unquoted(values) == [i \in 1..Len(values) |-> Strip(values[i].value, Q)]

AllLiterals(values) == \A i \in 1..Len(values) : IsLiteral(values[i])

\* C19: _extract_annotation_param returns the literal of a bare literal, the
\* values of a bare array of literals (as a list or joined), the value of the
\* pair named as requested, and the comma-joined literals when that value is
\* an array.
C19_ValueForEachShape ==
    pc = "param" =>
        LET e == FirstListenerPayload
        IN  /\ IsLiteral(e) => result = Returned(Strip(e.value, Q))
            /\ IsArray(e) /\ e.values # <<>> /\ AllLiterals(e.values) =>
                  /\ ~result.raised
                  /\ result.value \in {Join(<<", ">>, Unquoted(e.values)), Unquoted(e.values)}
            /\ IsPairList(e) =>
                  \A i \in 1..Len(e.pairs) :
                      /\ e.pairs[i].name = "topics"
                      /\ \A j \in 1..(i - 1) : e.pairs[j].name # "topics"
                      => /\ IsLiteral(e.pairs[i].value) =>
                               result = Returned(Strip(e.pairs[i].value.value, Q))
                         /\ IsArray(e.pairs[i].value) /\ AllLiterals(e.pairs[i].value.values) =>
                               result = Returned(Join(<<", ">>, Unquoted(e.pairs[i].value.values)))

\* C20: whatever the payload of the annotations, none of the four readers
\* raises: each returns a value or its default.
C20_ReadersNeverRaise ==
    pc \in {"param", "mapping", "path", "schedule"} => ~result.raised


----------------------------------------------------------------------------
(* Type strings and collection kinds in the extracted schemas *)

\* the declared types of the fields of the declaration, in schema order:
\* one per declarator of a class, one per component of a record
DeclaredTypes(decl) ==
    IF decl.kind = "record"
    THEN [i \in 1..Len(decl.parameters) |-> decl.parameters[i].type]
    ELSE Flatten([i \in 1..Len(decl.fields) |->
             [k \in 1..Len(decl.fields[i].declarators) |-> decl.fields[i].type]])

\* the schema was extracted from declared fields or components
FromDeclaredFields ==
    /\ pc = "done"
    /\ Len(result.fields) = Len(DeclaredTypes(node))
    /\ DeclaredTypes(node) # <<>>

\* C21: the type string of a record component with n array dimensions is the
\* base name followed by exactly n "[]", and has no "[]" without dimensions.
C21_OneBracketPairPerDimension ==
    FromDeclaredFields /\ node.kind = "record" =>
        \A i \in 1..Len(result.fields) :
            LET t == result.fields[i].type
                n == Len(DeclaredTypes(node)[i].dimensions)
            IN  /\ Len(t) > n
                /\ \A k \in 1..Len(t) : (t[k] = "[]") <=> (k > Len(t) - n)

\* the last node of the sub_type chain of a qualified type reference
RECURSIVE Terminal(_)
Terminal(type) ==
    IF HasSubType(type) /\ ~IsNone(type.sub_type) THEN Terminal(type.sub_type) ELSE type

MapOfLists ==
    ReferenceType(<<"Map">>,
        <<Arg(StringType),
          Arg(ReferenceType(<<"List">>, <<Arg(ItemType)>>, None, <<>>))>>, None, <<>>)

\* C22: the type string of a qualified type reference is the type string of
\* its terminal segment, generic arguments included, and nested generic
\* arguments are rendered in full.
C22_QualifiedAsTerminalSegment ==
    FromDeclaredFields /\ node.kind = "record" =>
        \A i \in 1..Len(result.fields) :
            LET type == DeclaredTypes(node)[i]
            IN  /\ result.fields[i].type = _get_type_string(Terminal(type))
                /\ type = MapOfLists =>
                      result.fields[i].type =
                          <<"Map", "<", "String", ", ", "List", "<", "Item", ">", ">">>

\* C23: the type of a field schema of a class is the type string of the
\* field's declared type, and a field of a known collection type has the
\* collection kind recorded next to it.
C23_FieldTypeIsTypeString ==
    FromDeclaredFields /\ node.kind = "class" =>
        \A i \in 1..Len(result.fields) :
            LET type == DeclaredTypes(node)[i]
            IN  /\ result.fields[i].type = _get_type_string(type)
                /\ type.name \in COLLECTION_TYPES =>
                      result.fields[i].collection_type = Some(type.name)

\* C24: a field or record component whose declared type name is a known
\* collection or map name is a collection of that kind; every other field is
\* not a collection and has no collection kind.
C24_CollectionKindRecorded ==
    FromDeclaredFields =>
        \A i \in 1..Len(result.fields) :
            LET type == DeclaredTypes(node)[i]
            IN  type = Terminal(type) =>
                    IF type.name \in COLLECTION_TYPES \cup MAP_TYPES
                    THEN /\ result.fields[i].is_collection
                         /\ result.fields[i].collection_type = Some(type.name)
                    ELSE /\ ~result.fields[i].is_collection
                         /\ IsNone(result.fields[i].collection_type)


----------------------------------------------------------------------------
(* REST entry points: leading slash, security of resource classes *)

\* C25: the path of every REST entry point begins with "/", whatever the
\* base path of the class and the path of the method are, both absent
\* included, for controller classes and for path-based resource classes.
C25_PathBeginsWithSlash ==
    pc = "done" =>
        \A i \in 1..Len(entry_points) :
            entry_points[i].type = "REST" =>
                StartsWith(entry_points[i].details.path, <<"/">>)

\* entry points of a path-based resource class carry the key "framework"
IsResourceEntry(e) == e.type = "REST" /\ "framework" \in DOMAIN e.details

\* C26: the entry point of a method of a path-based resource class has a
\* security entry in its detail map, resolved from the method's recognised
\* security marker, or else from the class's.
C26_ResourceSecurityResolved ==
    pc = "done" =>
        \A i \in 1..Len(entry_points) :
            IsResourceEntry(entry_points[i]) =>
                LET method == MethodNamed(entry_points[i].method_name)
                IN  /\ "security" \in DOMAIN entry_points[i].details
                    /\ CarriesSecurityMarker(method) =>
                           entry_points[i].details.security =
                               _extract_security_annotations(method)
                    /\ ~CarriesSecurityMarker(method) =>
                           entry_points[i].details.security =
                               _extract_security_annotations(node)


----------------------------------------------------------------------------
(* SpecOrder: parse_repository over files whose classes mix scheduled      *)
(* methods with listener and mapping methods                                *)

order_kinds == {"scheduled", "kafka", "kafka_scheduled", "get_mapping"}

\* a file with one class: @Component or @RestController, its methods of
\* the given kinds in declaration order
OrderFile(path, package_name, marker, kinds) ==
    JavaFile(path, TRUE, package_name,
        <<ClassNode(<<"K">>, <<Annotation(marker, Absent)>>,
              [i \in 1..Len(kinds) |-> MethodOfKind(kinds[i], i)])>>)

OrderKindLists == UNION {[1..k -> order_kinds] : k \in 0..MaxMethods}

\* a tree of two files, in the order rglob yields them
OrderTrees ==
    {<<OrderFile(<<"One.java">>, <<"a">>, m1, k1), OrderFile(<<"Two.java">>, <<"b">>, m2, k2)>> :
        m1 \in {"Component", "RestController"}, k1 \in OrderKindLists,
        m2 \in {"Component", "RestController"}, k2 \in OrderKindLists}

InitOrder ==
    /\ entry_points = <<>>
    /\ java_files = <<>>
    /\ file_idx = 0
    /\ calls = <<>>
    /\ pc = "idle"
    /\ log = <<>>
    /\ node \in OrderTrees
    /\ result = None
    /\ NoExtractor

SpecOrder == InitOrder /\ [][Next]_vars

\* the position in the scan of the file an entry point was emitted for
FileIndex(e) == CHOOSE k \in 1..Len(java_files) : java_files[k].path = e.file_path

\* the position, in its class, of the method an entry point was emitted for
MethodIndex(e) ==
    LET file == java_files[FileIndex(e)]
        class_node == file.classes[CHOOSE c \in 1..Len(file.classes) :
                          file.package_name \o <<".">> \o file.classes[c].name = e.class_name]
    IN  CHOOSE m \in 1..Len(class_node.methods) : class_node.methods[m].name = e.method_name

SameClass(e, f) == e.file_path = f.file_path /\ e.class_name = f.class_name

IsScheduledTask(e) == e.type = "SCHEDULED_TASK"

\* C27: in the entry-point list, entries of a file scanned earlier come
\* before those of a file scanned later; within a class the entries of the
\* primary extractor come before the SCHEDULED_TASK entries; within one
\* extractor the entries follow the declaration order of the methods.
C27_OrderFollowsScan ==
    \A i, j \in 1..Len(entry_points) :
        i < j =>
            LET e == entry_points[i]
                f == entry_points[j]
            IN  /\ FileIndex(e) <= FileIndex(f)
                /\ SameClass(e, f) => ~(IsScheduledTask(e) /\ ~IsScheduledTask(f))
                /\ SameClass(e, f) /\ (IsScheduledTask(e) <=> IsScheduledTask(f)) =>
                       MethodIndex(e) <= MethodIndex(f)

\* both files contributed, and in one class a scheduled method declared
\* first has its entry after the entries of two listener methods
C27_Witness ==
    /\ pc = "returned"
    /\ \E i, j \in 1..Len(entry_points) : FileIndex(entry_points[i]) < FileIndex(entry_points[j])
    /\ \E i, j, k \in 1..Len(entry_points) :
          /\ i < j /\ j < k
          /\ SameClass(entry_points[i], entry_points[j])
          /\ SameClass(entry_points[j], entry_points[k])
          /\ ~IsScheduledTask(entry_points[i]) /\ ~IsScheduledTask(entry_points[j])
          /\ IsScheduledTask(entry_points[k])
          /\ MethodIndex(entry_points[k]) < MethodIndex(entry_points[j])


----------------------------------------------------------------------------
(* SpecLookup: one lookup of a fresh extractor, on trees where the file     *)
(* named after a type need not declare it                                  *)

\* the declarations a file of the lookup trees can hold
lookup_contents ==
    {<<OrderClass>>, <<OrderItemClass>>, <<CustomerClass>>, <<ShapesClass, ItemRecord>>,
     <<CustomerClass, OrderClass>>}

LookupSources(path) ==
    {JavaSource(TRUE, <<path.dir>>, types) : types \in lookup_contents}
    \cup {JavaSource(FALSE, <<path.dir>>, <<OrderClass>>), Missing}

LookupRepos == {files \in [PathSet -> UNION {LookupSources(p) : p \in PathSet}] :
                   \A p \in PathSet : files[p] \in LookupSources(p)}

lookup_names ==
    {<<"Order">>, <<"a", ".", "Order">>, <<"b", ".", "Order">>, <<"Item">>, <<"Customer">>}

InitLookup ==
    /\ entry_points = <<>>
    /\ java_files = <<>>
    /\ file_idx = 0
    /\ calls = <<>>
    /\ log = <<>>
    /\ pc = "constructed"
    /\ node = None
    /\ result = None
    /\ repo \in LookupRepos
    /\ schemas = EmptyDict
    /\ _java_files_cache = _build_file_index(repo)
    /\ first_result = <<>>
    /\ last_call = NoCall

\* somebody writes a file of the tree after the extractor was constructed
WriteFile ==
    /\ pc = "constructed"
    /\ \E path \in PathSet :
          \E source \in LookupSources(path) \ {Missing} :
              /\ repo[path] # source
              /\ repo' = [repo EXCEPT ![path] = source]
    /\ pc' = "written"
    /\ UNCHANGED <<entry_points, java_files, file_idx, calls, log, node, result,
                   schemas, _java_files_cache, first_result, last_call>>

\* the extractor's first call of extract_schema
LookUpSchema ==
    /\ pc \in {"constructed", "written"}
    /\ \E class_name \in lookup_names :
          LET r == extract_schema(schemas, _java_files_cache, repo, class_name)
          IN  /\ node' = class_name
              /\ result' = r.schema
              /\ schemas' = r.schemas
              /\ last_call' = [repeated |-> FALSE, reads |-> r.reads,
                               scanned |-> r.scanned]
    /\ pc' = "looked_up"
    /\ UNCHANGED <<entry_points, java_files, file_idx, calls, log, repo,
                   _java_files_cache, first_result>>

\* a second call of extract_schema on the same extractor; first_result
\* keeps the name and the result of the first call
LookUpAgain ==
    /\ pc = "looked_up"
    /\ \E class_name \in lookup_names :
          LET r == extract_schema(schemas, _java_files_cache, repo, class_name)
          IN  /\ node' = class_name
              /\ result' = r.schema
              /\ schemas' = r.schemas
              /\ last_call' = [repeated |-> class_name = node, reads |-> r.reads,
                               scanned |-> r.scanned]
    /\ first_result' = [class_name |-> node, result |-> result]
    /\ pc' = "looked_up_again"
    /\ UNCHANGED <<entry_points, java_files, file_idx, calls, log, repo,
                   _java_files_cache>>

NextLookup == WriteFile \/ LookUpSchema \/ LookUpAgain

SpecLookup == InitLookup /\ [][NextLookup]_vars

\* the file declares a class or a record of the name, and the parser takes it
Declares(source, name) ==
    /\ source # Missing
    /\ source.parsable
    /\ \E i \in 1..Len(source.types) : source.types[i].name = name

\* the text of the file has "class <name>" or "record <name>", the name
\* alone or as the beginning of a longer one
TextNames(source, name) ==
    /\ source # Missing
    /\ \E i \in 1..Len(source.types) : StartsWith(source.types[i].name, name)

\* the files whose stem is the name
FilesNamed(name) == {p \in PathSet : p.stem = name /\ repo[p] # Missing}

\* the first file, in listing order, whose text names the type
FirstNaming(name) ==
    LET naming == {i \in 1..Len(source_paths) : TextNames(repo[source_paths[i]], name)}
    IN  IF naming = {} THEN None
        ELSE source_paths[CHOOSE i \in naming : \A j \in naming : i <= j]

\* the lookup looked at one file at most, `path`, and returned what that file
\* declares under the name, or not-found
InspectedOnly(path, name) ==
    IF Declares(repo[path], name)
    THEN ~IsNone(result) /\ result.file_path = PathString(path)
    ELSE IsNone(result)

\* C28 as stated: when a file named T.java exists, the lookup of T does not
\* scan the texts and inspects only that file; otherwise only the first file
\* whose text names T is inspected.
C28_ScanOnlyWithoutFileNamed ==
    pc = "looked_up" =>
        LET name == LastSegment(node)
        IN  IF FilesNamed(name) # {}
            THEN /\ ~last_call.scanned
                 /\ \E p \in FilesNamed(name) : InspectedOnly(p, name)
            ELSE /\ last_call.scanned
                 /\ IF IsNone(FirstNaming(name)) THEN IsNone(result)
                    ELSE InspectedOnly(FirstNaming(name), name)

\* C28: when the filename index, built when the extractor was constructed,
\* has the name T, the lookup of T does not scan the texts and inspects only
\* the indexed file; on an index miss only the first file whose text names T
\* is inspected.
C28_ScanOnlyOnIndexMiss ==
    pc = "looked_up" =>
        LET name == LastSegment(node)
        IN  IF name \in DOMAIN _java_files_cache
            THEN /\ ~last_call.scanned
                 /\ last_call.reads <= 1
                 /\ InspectedOnly(_java_files_cache[name], name)
            ELSE /\ last_call.scanned
                 /\ IF IsNone(FirstNaming(name)) THEN IsNone(result)
                    ELSE InspectedOnly(FirstNaming(name), name)

\* a/Order.java declares OrderItem only and b/Customer.java declares Order:
\* the lookup of Order read a/Order.java alone and found nothing
C28_Witness ==
    /\ pc = "looked_up"
    /\ node = <<"Order">>
    /\ <<"Order">> \in DOMAIN _java_files_cache
    /\ ~Declares(repo[source_paths[1]], <<"Order">>)
    /\ Declares(repo[source_paths[3]], <<"Order">>)
    /\ last_call.reads = 1
    /\ IsNone(result)

\* no Order.java: a/Shapes.java declares OrderItem, b/Customer.java declares
\* Order, and the lookup of Order stopped at a/Shapes.java
C28_WitnessPrefix ==
    /\ pc = "looked_up"
    /\ node = <<"Order">>
    /\ <<"Order">> \notin DOMAIN _java_files_cache
    /\ repo[source_paths[1]] = Missing
    /\ TextNames(repo[source_paths[2]], <<"Order">>)
    /\ Declares(repo[source_paths[3]], <<"Order">>)
    /\ last_call.scanned
    /\ IsNone(result)


\* C29: when the first call of extract_schema returned a schema, a second
\* call for a name with the same last segment, whatever its package prefix,
\* returns that schema and reads no file; the cache has one schema per simple
\* name.
C29_KeyedBySimpleName ==
    pc = "looked_up_again" =>
        /\ ~IsNone(first_result.result)
           /\ LastSegment(first_result.class_name) = LastSegment(node) =>
               /\ result = first_result.result
               /\ last_call.reads = 0
               /\ ~last_call.scanned
        /\ \A key \in DOMAIN schemas :
               /\ ~InList(".", key)
               /\ schemas[key].class_name = key

\* Order was found for a.Order in a/Order.java, b/Customer.java declares a
\* class Order as well, and the lookup of b.Order returned the schema of a
C29_Witness ==
    /\ pc = "looked_up_again"
    /\ first_result.class_name = <<"a", ".", "Order">>
    /\ ~IsNone(first_result.result)
    /\ node = <<"b", ".", "Order">>
    /\ Declares(repo[source_paths[3]], <<"Order">>)
    /\ result.package_name = <<"a">>
    /\ DOMAIN schemas = {<<"Order">>}


----------------------------------------------------------------------------
(* SpecRepeat: two JavaASTParser instances on one unchanged tree, each       *)
(* called any number of times                                               *)

\* most calls of parse_repository in a behaviour
MaxCalls == 3

\* the two parser instances
parsers == {1, 2}

\* parse_repository, lines 32-41: the list of the instance after the call
parse_repository(eps, files) ==
    eps \o Flatten([i \in 1..Len(files) |-> parse_file(files[i]).eps])

\* __init__, lines 26-28, of both instances
InitRepeat ==
    /\ entry_points = [p \in parsers |-> <<>>]
    /\ java_files = <<>>
    /\ file_idx = 0
    /\ calls = <<>>
    /\ pc = "constructed"
    /\ log = <<>>
    /\ node \in SourceTrees(MaxFiles)
    /\ result = None
    /\ NoExtractor

\* variant: the call starts from an empty list
ParseRepositoryStartingAnew ==
    /\ Len(calls) < MaxCalls
    /\ \E p \in parsers :
          LET returned == parse_repository(<<>>, node)
          IN  /\ entry_points' = [entry_points EXCEPT ![p] = returned]
              /\ calls' = Append(calls, [parser |-> p, returned |-> returned])
              /\ result' = returned
    /\ log' = log \o Flatten([i \in 1..Len(node) |-> parse_file(node[i]).warning])
    /\ java_files' = node
    /\ pc' = "returned"
    /\ UNCHANGED <<file_idx, node>>
    /\ UNCHANGED schema_vars

\* a call of parse_repository on one of the instances; calls keeps which
\* instance was called and the list it returned
ParseRepository ==
    /\ Len(calls) < MaxCalls
    /\ \E p \in parsers :
          LET returned == parse_repository(entry_points[p], node)
          IN  /\ entry_points' = [entry_points EXCEPT ![p] = returned]
              /\ calls' = Append(calls, [parser |-> p, returned |-> returned])
              /\ result' = returned
    /\ log' = log \o Flatten([i \in 1..Len(node) |-> parse_file(node[i]).warning])
    /\ java_files' = node
    /\ pc' = "returned"
    /\ UNCHANGED <<file_idx, node>>
    /\ UNCHANGED schema_vars

\* a call of generate_report on one of the instances
GenerateReportOf ==
    /\ pc = "returned"
    /\ \E p \in parsers :
          result' = [parser |-> p, report |-> generate_report(entry_points[p])]
    /\ pc' = "reported"
    /\ UNCHANGED <<entry_points, java_files, file_idx, calls, log, node>>
    /\ UNCHANGED schema_vars

NextRepeat == ParseRepository \/ GenerateReportOf

SpecRepeat == InitRepeat /\ [][NextRepeat]_vars

\* the calls made on an instance, in order
CallsOf(p) == SelectSeq(calls, LAMBDA c : c.parser = p)

\* how many entry points of the kind a list holds
CountOfKind(eps, kind) == Cardinality({i \in 1..Len(eps) : eps[i].type = kind})

\* C30: the list a second parse_repository call returns on an instance, over
\* the unchanged tree, starts with the list its first call returned and is
\* twice as long; generate_report then counts every entry point twice; what
\* one instance holds does not depend on the calls made on the other.
C30_SecondCallAppendsAgain ==
    /\ \A p \in parsers :
          LET mine == CallsOf(p)
          IN  /\ mine = <<>> => entry_points[p] = <<>>
              /\ mine # <<>> => entry_points[p] = mine[Len(mine)].returned
              /\ \A q \in parsers :
                    mine # <<>> /\ CallsOf(q) # <<>> =>
                        mine[1].returned = CallsOf(q)[1].returned
              /\ Len(mine) >= 2 =>
                    /\ IsPrefix(mine[1].returned, mine[2].returned)
                    /\ Len(mine[2].returned) = 2 * Len(mine[1].returned)
                    /\ mine[2].returned = mine[1].returned \o mine[1].returned
    /\ pc = "reported" /\ Len(CallsOf(result.parser)) = 2 =>
          LET once == CallsOf(result.parser)[1].returned
          IN  /\ result.report.total_entry_points = 2 * Len(once)
              /\ \A kind \in DOMAIN result.report.by_type :
                     result.report.by_type[kind] = 2 * CountOfKind(once, kind)
              /\ \A i \in 1..Len(once) : once[i].type \in DOMAIN result.report.by_type

\* the first instance was called twice and the second once, on a tree with
\* entry points; the report of the first counts them twice
C30_Witness ==
    /\ pc = "reported"
    /\ result.parser = 1
    /\ Len(CallsOf(1)) = 2
    /\ Len(CallsOf(2)) = 1
    /\ Len(entry_points[2]) >= 3
    /\ Len(entry_points[1]) = 2 * Len(entry_points[2])
    /\ result.report.total_entry_points = Len(entry_points[1])

====
